---------------------------- MODULE Spec2Model ----------------------------
(***************************************************************************)
(* A model of the GoldWen matching service (src/matching-service):         *)
(*   - services/cache.py            CacheService over a Redis store        *)
(*   - main.py                      the V1/V2 endpoints and daily selection*)
(*   - app/services/matching_algorithm.py   MatchingAlgorithm              *)
(*                                                                         *)
(* Python strings are sequences of one-character strings; Ord gives the    *)
(* code point Python's str comparison uses.  Scores in [0,1] are kept in   *)
(* millionths (Micro), the 0-100 public score in tenths of a point.        *)
(***************************************************************************)
EXTENDS Integers, Sequences, FiniteSets, TLC

VARIABLES
    ctor,       \* CacheService.__init__ arguments and the ping outcome
    enabled,    \* CacheService.enabled
    has_client, \* CacheService.redis_client is not None
    store,      \* the Redis database: key -> stored string
    live,       \* history: (pair, version) -> result of the last successful set
                \*          not yet invalidated, cleared or expired
    stats,      \* main.py: the statistics dictionary
    calculation_count,          \* MatchingAlgorithm.calculation_count
    total_compatibility_score,  \* MatchingAlgorithm.total_compatibility_score
    op,         \* the last call (operation or request) and its outcome
    inflight    \* main.py: the requests two workers are handling, each with
                \*          its place in the handler

vars == <<ctor, enabled, has_client, store, live, stats, calculation_count,
          total_compatibility_score, op, inflight>>

\* The CacheService object, and the MatchingAlgorithm object.
cacheObj == <<ctor, enabled, has_client>>
algoObj == <<calculation_count, total_compatibility_score>>

-----------------------------------------------------------------------------
(* Strings *)

\* Code points of the characters user ids are drawn from.
Ord(c) ==
    CASE c = "*"  -> 42
      [] c = "1"  -> 49
      [] c = "2"  -> 50
      [] c = ":"  -> 58
      [] c = "\\" -> 92
      [] c = "a"  -> 97
      [] c = "b"  -> 98
      [] OTHER    -> 120

\* Python's str <: lexicographic by code point, a proper prefix is smaller.
RECURSIVE StrLess(_, _)
StrLess(s, t) ==
    IF t = <<>> THEN FALSE
    ELSE IF s = <<>> THEN TRUE
    ELSE IF Ord(Head(s)) # Ord(Head(t)) THEN Ord(Head(s)) < Ord(Head(t))
    ELSE StrLess(Tail(s), Tail(t))

\* sorted([x, y]) (a stable sort: equal strings keep their order, and are equal)
sorted2(x, y) == IF StrLess(y, x) THEN <<y, x>> ELSE <<x, y>>

\* All strings over alphabet A of length 1..n.
RECURSIVE StringsOfLen(_, _)
StringsOfLen(A, n) ==
    IF n = 0 THEN {<<>>}
    ELSE {<<c>> \o s : c \in A, s \in StringsOfLen(A, n - 1)}

Strings(A, n) == UNION {StringsOfLen(A, k) : k \in 1..n}

-----------------------------------------------------------------------------
(* CacheService._make_key *)

V1 == <<"v", "1">>
V2 == <<"v", "2">>
Versions == {V1, V2}

KeyPrefix == <<"c","o","m","p","a","t","i","b","i","l","i","t","y">>

\* A mutant of make_key that forgets to sort the two ids.
make_key_unsorted(user1_id, user2_id, version) ==
    KeyPrefix \o <<":">> \o version \o <<":">> \o user1_id \o <<":">> \o user2_id

\* f"compatibility:{version}:{sorted_ids[0]}:{sorted_ids[1]}"
make_key(user1_id, user2_id, version) ==
    LET sorted_ids == sorted2(user1_id, user2_id)
    IN  KeyPrefix \o <<":">> \o version \o <<":">> \o sorted_ids[1]
                  \o <<":">> \o sorted_ids[2]

-----------------------------------------------------------------------------
(* Python values and the strings Redis stores *)

None == [t |-> "None"]
PyBool(b) == [t |-> "bool", v |-> b]
PyInt(n) == [t |-> "int", v |-> n]
PyStr(x) == [t |-> "str", v |-> x]

\* A result dictionary as the calculators build it: compatibilityScore in
\* tenths of a point and the "personality" detail in millionths.  Every
\* answer of this model has the category "personality", so the other three
\* details are the neutral 0.5 and are not kept.
ResultDict(compatibilityScore, personality) ==
    [t |-> "dict", compatibilityScore |-> compatibilityScore,
     personality |-> personality]

\* json.dumps of a dictionary with string keys and float/list/str values, and
\* json.loads of what it wrote: the round trip returns an equal dictionary.
json_dumps(value) == [kind |-> "json", value |-> value]
IsJson(string) == string.kind = "json"
json_loads(string) == string.value

\* Strings another writer of the same Redis database may have left under a
\* key: text that is no JSON document, and a JSON object that is no result.
NotJson == [kind |-> "text"]
ForeignJson == json_dumps([t |-> "dict_other"])

-----------------------------------------------------------------------------
(* CacheService *)

A   == <<"a">>
B   == <<"b">>
AB  == <<"a", ":", "b">>
BB  == <<"b", ":", "b">>
AEB == <<"a", "\\", "b">>

\* The user ids of the cache model: plain ids, ids holding the ':' separator
\* and an id holding the glob escape character.
UserIds == {A, B, AB, BB, AEB}

\* The pairs callers ask about, each in both orders: two pairs of ids
\* holding ':' ("a" with "b:b", "a:b" with "b"), and a pair with the id
\* holding the escape character.
RequestPairs ==
    {<<A, BB>>, <<BB, A>>, <<AB, B>>, <<B, AB>>, <<A, AEB>>, <<AEB, A>>}

DefaultTtl == 3600

\* A mutant of the constructor that keeps the cache enabled, and the client,
\* when the connection test fails.
CacheServiceInit_NoDisable(enabled_arg, ping_ok) ==
    [enabled |-> enabled_arg, has_client |-> enabled_arg, ttl |-> DefaultTtl]

\* __init__: the client exists only if enabled was passed and ping() worked;
\* a RedisError from ping() disables the cache.
CacheServiceInit(enabled_arg, ping_ok) ==
    IF enabled_arg
    THEN IF ping_ok
         THEN [enabled |-> TRUE, has_client |-> TRUE, ttl |-> DefaultTtl]
         ELSE [enabled |-> FALSE, has_client |-> FALSE, ttl |-> DefaultTtl]
    ELSE [enabled |-> FALSE, has_client |-> FALSE, ttl |-> DefaultTtl]

\* "if not self.enabled or not self.redis_client"
Disabled == ~enabled \/ ~has_client

\* Redis glob matching (util.c stringmatchlen) for the pattern characters
\* that occur here: '*' matches any run of characters, '\' takes the next
\* pattern character literally, any other character matches itself.  ('?'
\* and '[' do not occur in the ids of this model.)
RECURSIVE GlobMatch(_, _)
GlobMatch(p, s) ==
    IF p = <<>> THEN s = <<>>
    ELSE IF Head(p) = "*"
         THEN \/ GlobMatch(Tail(p), s)
              \/ s # <<>> /\ GlobMatch(p, Tail(s))
    ELSE IF Head(p) = "\\" /\ Len(p) >= 2
         THEN /\ s # <<>>
              /\ Head(s) = p[2]
              /\ GlobMatch(SubSeq(p, 3, Len(p)), Tail(s))
    ELSE /\ s # <<>>
         /\ Head(s) = Head(p)
         /\ GlobMatch(Tail(p), Tail(s))

\* f"compatibility:*:*{user_id}*"
ClearPattern(user_id) ==
    KeyPrefix \o <<":", "*", ":", "*">> \o user_id \o <<"*">>

\* Every key the model's operations can build.
AllKeys == {make_key(p[1], p[2], v) : p \in RequestPairs, v \in Versions}

\* The keys of AllKeys that scan_iter(match=pattern) yields, per user id.
ScanTable ==
    [u \in UserIds |-> {k \in AllKeys : GlobMatch(ClearPattern(u), k)}]

\* list(self.redis_client.scan_iter(match=pattern))
scan_iter(user_id) == ScanTable[user_id] \cap DOMAIN store

\* The database without the keys of K (DEL, or a TTL that ran out).
Without(K) == [k \in (DOMAIN store) \ K |-> store[k]]

\* History bookkeeping.  An entry of live is <<{a, b}, version>>.
Pair(a, b) == {a, b}
KeyOfEntry(e) ==
    LET x == CHOOSE x \in e[1] : TRUE
        y == CHOOSE y \in e[1] : e[1] = {x} \/ y # x
    IN  make_key(x, y, e[2])
LiveWithout(K) ==
    [e \in {e \in DOMAIN live : KeyOfEntry(e) \notin K} |-> live[e]]

\* The bound on the number of keys in the database.
MaxEntries == 2

\* The results callers pass to set().
Results == {ResultDict(855, 900000), ResultDict(750, 800000)}

\* What a disabled cache answers, per operation.
FailureValue(name) ==
    CASE name = "get"              -> None
      [] name = "set"              -> PyBool(FALSE)
      [] name = "invalidate"       -> PyBool(FALSE)
      [] name = "clear_user_cache" -> PyInt(0)
      [] name = "health_check"     -> PyBool(FALSE)
      [] OTHER                     -> None

\* The outcome of get(user1_id, user2_id, version): sent counts the commands
\* sent to Redis, failed says a RedisError was caught, raised says another
\* exception left the method.  fail: the GET raises a RedisError.
cache_get(user1_id, user2_id, version, fail) ==
    IF Disabled
    THEN [sent |-> 0, failed |-> FALSE, raised |-> FALSE, ret |-> None]
    ELSE IF fail
    THEN [sent |-> 1, failed |-> TRUE, raised |-> FALSE, ret |-> None]
    ELSE LET key == make_key(user1_id, user2_id, version)
             cached == IF key \in DOMAIN store THEN store[key] ELSE None
         IN  IF cached # None
             \* json.loads raises JSONDecodeError, which is no RedisError
             THEN IF IsJson(cached)
                  THEN [sent |-> 1, failed |-> FALSE, raised |-> FALSE,
                        ret |-> json_loads(cached)]
                  ELSE [sent |-> 1, failed |-> FALSE, raised |-> TRUE,
                        ret |-> None]
             ELSE [sent |-> 1, failed |-> FALSE, raised |-> FALSE, ret |-> None]

\* The outcome of set(user1_id, user2_id, result, version, ttl) and the
\* database after it.  ttl is None or PyInt(n).  fail: the SETEX raises a
\* RedisError (connection error, timeout); a ttl that is not positive gets
\* the error reply "invalid expire time", a RedisError as well.
cache_set(user1_id, user2_id, result, version, ttl, fail) ==
    IF Disabled
    THEN [sent |-> 0, failed |-> FALSE, raised |-> FALSE, ret |-> PyBool(FALSE),
          store |-> store]
    ELSE LET key == make_key(user1_id, user2_id, version)
             ttl_to_use == IF ttl # None THEN ttl.v ELSE ctor.ttl
         IN  IF fail \/ ttl_to_use <= 0
             THEN [sent |-> 1, failed |-> TRUE, raised |-> FALSE,
                   ret |-> PyBool(FALSE), store |-> store]
             ELSE [sent |-> 1, failed |-> FALSE, raised |-> FALSE,
                   ret |-> PyBool(TRUE),
                   store |-> (key :> json_dumps(result)) @@ store]

\* The history after a set with outcome out.
LiveAfterSet(user1_id, user2_id, result, version, out) ==
    IF out.ret = PyBool(TRUE)
    THEN (<<Pair(user1_id, user2_id), version>> :> result) @@ live
    ELSE live

\* The model keeps at most MaxEntries keys.
WithinCapacity(new_store) == Cardinality(DOMAIN new_store) <= MaxEntries

\* A string another writer left in the database.
IsForeign(key) == key \in DOMAIN store /\ store[key] \in {NotJson, ForeignJson}

Get(a, b, v, fail) ==
    /\ op' = [name |-> "get", a |-> a, b |-> b, v |-> v]
                @@ cache_get(a, b, v, fail)
    /\ UNCHANGED <<inflight, cacheObj, store, live, stats, algoObj>>

Set(a, b, result, v, ttl, fail) ==
    LET out == cache_set(a, b, result, v, ttl, fail)
    IN  /\ WithinCapacity(out.store)
        /\ store' = out.store
        /\ live' = LiveAfterSet(a, b, result, v, out)
        /\ op' = [name |-> "set", a |-> a, b |-> b, v |-> v, result |-> result,
                  sent |-> out.sent, failed |-> out.failed,
                  raised |-> out.raised, ret |-> out.ret]
        /\ UNCHANGED <<inflight, cacheObj, stats, algoObj>>

\* invalidate(user1_id, user2_id, version); fail: the DEL raises a RedisError.
Invalidate(a, b, v, fail) ==
    LET key == make_key(a, b, v)
        base == [name |-> "invalidate", a |-> a, b |-> b, v |-> v,
                 had_entry |-> \/ <<Pair(a, b), v>> \in DOMAIN live
                               \/ IsForeign(make_key(a, b, v))]
    IN  IF Disabled
        THEN /\ op' = base @@ [sent |-> 0, failed |-> FALSE, raised |-> FALSE,
                               ret |-> PyBool(FALSE)]
             /\ UNCHANGED <<inflight, cacheObj, store, live, stats, algoObj>>
        ELSE IF fail
        THEN /\ op' = base @@ [sent |-> 1, failed |-> TRUE, raised |-> FALSE,
                               ret |-> PyBool(FALSE)]
             /\ UNCHANGED <<inflight, cacheObj, store, live, stats, algoObj>>
        ELSE LET deleted == Cardinality({key} \cap DOMAIN store)
             IN  /\ store' = Without({key})
                 /\ live' = LiveWithout({key})
                 /\ op' = base @@ [sent |-> 1, failed |-> FALSE, raised |-> FALSE,
                                   ret |-> PyBool(deleted # 0)]
                 /\ UNCHANGED <<inflight, cacheObj, stats, algoObj>>

\* clear_user_cache(user_id); fail_at: 0 no failure, 1 the SCAN raises a
\* RedisError, 2 the DEL does.
ClearUserCache(user_id, fail_at) ==
    LET keys == scan_iter(user_id)
        base == [name |-> "clear_user_cache", a |-> user_id]
    IN  IF Disabled
        THEN /\ op' = base @@ [sent |-> 0, failed |-> FALSE, raised |-> FALSE,
                               ret |-> PyInt(0)]
             /\ UNCHANGED <<inflight, cacheObj, store, live, stats, algoObj>>
        ELSE IF fail_at = 1
        THEN /\ op' = base @@ [sent |-> 1, failed |-> TRUE, raised |-> FALSE,
                               ret |-> PyInt(0)]
             /\ UNCHANGED <<inflight, cacheObj, store, live, stats, algoObj>>
        ELSE IF keys = {}
        THEN /\ op' = base @@ [sent |-> 1, failed |-> FALSE, raised |-> FALSE,
                               ret |-> PyInt(0)]
             /\ UNCHANGED <<inflight, cacheObj, store, live, stats, algoObj>>
        ELSE IF fail_at = 2
        THEN /\ op' = base @@ [sent |-> 2, failed |-> TRUE, raised |-> FALSE,
                               ret |-> PyInt(0)]
             /\ UNCHANGED <<inflight, cacheObj, store, live, stats, algoObj>>
        ELSE /\ store' = Without(keys)
             /\ live' = LiveWithout(keys)
             /\ op' = base @@ [sent |-> 2, failed |-> FALSE, raised |-> FALSE,
                               ret |-> PyInt(Cardinality(keys))]
             /\ UNCHANGED <<inflight, cacheObj, stats, algoObj>>

\* health_check(); fail: the PING raises a RedisError.
HealthCheck(fail) ==
    /\ op' = [name |-> "health_check",
              sent |-> IF Disabled THEN 0 ELSE 1,
              failed |-> ~Disabled /\ fail, raised |-> FALSE,
              ret |-> PyBool(~Disabled /\ ~fail)]
    /\ UNCHANGED <<inflight, cacheObj, store, live, stats, algoObj>>

\* The TTL of a key runs out: Redis drops the key.
Expire(key) ==
    /\ key \in DOMAIN store
    /\ store' = Without({key})
    /\ live' = LiveWithout({key})
    /\ op' = [name |-> "expire", key |-> key, sent |-> 0, failed |-> FALSE,
              raised |-> FALSE, ret |-> None]
    /\ UNCHANGED <<inflight, cacheObj, stats, algoObj>>

\* The database a starting process finds: empty, or holding one string that
\* another writer left under the v1 key of the pair ("a", "a\b").
InitialStores ==
    {<<>>} \cup {make_key(A, AEB, V1) :> s : s \in {NotJson, ForeignJson}}

NoCall == [name |-> "none"]

\* main.py: stats at import; average_score is a fraction of tenths of a point.
StatsInit ==
    [total_calculations |-> 0, total_v2_calculations |-> 0,
     average_score |-> [num |-> 0, den |-> 1]]

\* The service object after CacheService(enabled=enabled_arg), the
\* connection test answering ping_ok.
Constructed(enabled_arg, ping_ok) ==
    LET c == CacheServiceInit(enabled_arg, ping_ok)
    IN  /\ ctor = [enabled |-> enabled_arg, ping_ok |-> ping_ok, ttl |-> c.ttl]
        /\ enabled = c.enabled
        /\ has_client = c.has_client

CacheInit ==
    /\ \E enabled_arg \in BOOLEAN, ping_ok \in BOOLEAN :
          Constructed(enabled_arg, ping_ok)
    /\ store \in InitialStores
    /\ live = <<>>
    /\ stats = StatsInit
    /\ calculation_count = 0
    /\ total_compatibility_score = 0
    /\ inflight = <<>>
    /\ op = NoCall

CacheNext ==
    \/ \E p \in RequestPairs, v \in Versions, fail \in BOOLEAN :
          Get(p[1], p[2], v, fail)
    \/ \E p \in RequestPairs, r \in Results, v \in Versions,
          ttl \in {None, PyInt(0)}, fail \in BOOLEAN :
          Set(p[1], p[2], r, v, ttl, fail)
    \/ \E p \in RequestPairs, v \in Versions, fail \in BOOLEAN :
          Invalidate(p[1], p[2], v, fail)
    \/ \E u \in UserIds, fail_at \in 0..2 : ClearUserCache(u, fail_at)
    \/ \E fail \in BOOLEAN : HealthCheck(fail)
    \/ \E key \in DOMAIN store : Expire(key)

Spec == CacheInit /\ [][CacheNext]_vars

\* The cache was constructed disabled, or its connection test failed.
DisabledAtConstruction == ~ctor.enabled \/ ~ctor.ping_ok

IsCacheOp(o) ==
    o.name \in {"get", "set", "invalidate", "clear_user_cache", "health_check"}

\* C2: while the store is reachable the cache is a map keyed by (unordered
\* pair, version): a get returns the result of the last successful set of
\* that pair and version while it is neither invalidated, cleared nor
\* expired, and None otherwise (after an invalidate in particular);
\* invalidate returns True exactly when the pair had an entry.
C2_CacheIsPairMap ==
    /\ (op.name = "get" /\ ~Disabled /\ ~op.failed) =>
          LET e == <<Pair(op.a, op.b), op.v>>
          IN  IF e \in DOMAIN live
              THEN ~op.raised /\ op.ret = live[e]
              ELSE IsForeign(make_key(op.a, op.b, op.v)) \/ op.ret = None
    /\ (op.name = "invalidate" /\ ~Disabled /\ ~op.failed) =>
          op.ret = PyBool(op.had_entry)

\* C3: a cache that is disabled at construction answers every operation with
\* its failure value, sends nothing to the store, changes nothing in it and
\* raises nothing.
C3_DisabledIsNoOp ==
    [][(DisabledAtConstruction /\ IsCacheOp(op')) =>
          /\ store' = store
          /\ op'.sent = 0
          /\ ~op'.raised
          /\ op'.ret = FailureValue(op'.name)]_vars

\* C3's case: the connection test failed, the store holds a string under
\* the key asked for, and get answered None.
C3_Witness ==
    /\ ctor.enabled /\ ~ctor.ping_ok
    /\ op.name = "get"
    /\ make_key(op.a, op.b, op.v) \in DOMAIN store
    /\ op.ret = None

\* C4: no cache operation lets a fault reach its caller.
C4_NoFaultPropagates == IsCacheOp(op) => ~op.raised

\* C6: after clear_user_cache(u) on a reachable store no entry of a pair
\* containing u remains, for both versions and both positions of u.
C6_ClearRemovesAllOfUser ==
    (op.name = "clear_user_cache" /\ ~Disabled /\ ~op.failed) =>
        \A p \in RequestPairs, v \in Versions :
            op.a \in Pair(p[1], p[2]) =>
                make_key(p[1], p[2], v) \notin DOMAIN store

-----------------------------------------------------------------------------
(* SpecKey: _make_key as a pure function over bounded ids *)

MaxIdLen == 2
IdAlphabet == {"a", "b", ":"}
KeyIds == Strings(IdAlphabet, MaxIdLen)

KeyInit ==
    /\ Constructed(FALSE, FALSE)
    /\ store = <<>>
    /\ live = <<>>
    /\ stats = StatsInit
    /\ calculation_count = 0
    /\ total_compatibility_score = 0
    /\ inflight = <<>>
    /\ op = NoCall

MakeKeyCall ==
    /\ \E a \in KeyIds, b \in KeyIds, v \in Versions :
          op' = [name |-> "make_key", a |-> a, b |-> b, v |-> v,
                 key_ab |-> make_key(a, b, v),
                 key_ba |-> make_key(b, a, v),
                 key_v1 |-> make_key(a, b, V1),
                 key_v2 |-> make_key(a, b, V2)]
    /\ UNCHANGED <<inflight, cacheObj, store, live, stats, algoObj>>

KeyNext == MakeKeyCall

SpecKey == KeyInit /\ [][KeyNext]_vars

\* C1: _make_key(a, b, v) = _make_key(b, a, v) for all ids and versions, and
\* the v1 key of a pair differs from its v2 key.
C1_KeySymmetricAndVersioned ==
    op.name = "make_key" =>
        /\ op.key_ab = op.key_ba
        /\ op.key_v1 # op.key_v2

\* C1's case: two different ids given in descending order, so sorting acts.
C1_Witness ==
    /\ op.name = "make_key"
    /\ StrLess(op.b, op.a)
    /\ op.key_ab = op.key_ba


-----------------------------------------------------------------------------
(* Arithmetic: floats in [0,1] as integers in millionths *)

Micro == 10^6

\* A difference taken with its sign.
Signed(x) == x

Abs(x) == IF x < 0 THEN -x ELSE x
Min(x, y) == IF x <= y THEN x ELSE y
Max(x, y) == IF x >= y THEN x ELSE y

\* Python's round(): x / unit to the nearest integer, a tie to the even one.
RoundTo(x, unit) ==
    LET q == x \div unit
        r == x % unit
    IN  IF 2 * r > unit THEN q + 1
        ELSE IF 2 * r < unit THEN q
        ELSE IF q % 2 = 0 THEN q ELSE q + 1

\* round(x, 3) of a value in millionths, in millionths.
round3(x) == RoundTo(x, 1000) * 1000

RECURSIVE GCD(_, _)
GCD(x, y) == IF y = 0 THEN Abs(x) ELSE GCD(y, x % y)

\* The fraction n/d (d > 0) in lowest terms.
Frac(n, d) ==
    LET g == GCD(n, d)
    IN  IF g = 0 THEN [num |-> 0, den |-> 1] ELSE [num |-> n \div g, den |-> d \div g]

-----------------------------------------------------------------------------
(* models/schemas.py: the request profiles of main.py, as model_dump() gives *)
(* them to the calculators.  languages and createdAt are left at their      *)
(* defaults in every profile here; a coordinate is a whole number of         *)
(* degrees, a time a whole number of hours before now (negative: after now). *)

\* PersonalityAnswer with every payload: None or, in this order, a PyInt,
\* a PyBool, a PyList and a PyStr.
Answer(questionId, category, numericAnswer, booleanAnswer, multipleChoiceAnswer, textAnswer) ==
    [questionId |-> questionId, category |-> category,
     numericAnswer |-> numericAnswer, booleanAnswer |-> booleanAnswer,
     multipleChoiceAnswer |-> multipleChoiceAnswer, textAnswer |-> textAnswer]

\* PersonalityAnswer(questionId=..., numericAnswer=...), all else defaulted.
PersonalityAnswer(questionId, numericAnswer) ==
    Answer(questionId, "personality", numericAnswer, None, None, None)

UserPreferences(minAge, maxAge, gender) ==
    [t |-> "dict", minAge |-> minAge, maxAge |-> maxAge, gender |-> gender,
     maxDistance |-> None]

\* UserProfile(userId=..., personalityAnswers=...), all else defaulted.
UserProfile(userId, personalityAnswers) ==
    [userId |-> userId, age |-> None, gender |-> None, interests |-> <<>>,
     personalityAnswers |-> personalityAnswers, preferences |-> None,
     latitude |-> None, longitude |-> None,
     lastActiveAt |-> None, lastLoginAt |-> None,
     messagesSent |-> 0, messagesReceived |-> 0, matchesCount |-> 0]

-----------------------------------------------------------------------------
(* services/compatibility_calculator.py *)

Range(seq) == {seq[i] : i \in DOMAIN seq}

\* user2_answer_map.get(question_id): the last answer to the question.
AnswerMapGet(user2_answers, question_id) ==
    LET I == {i \in DOMAIN user2_answers :
                 user2_answers[i].questionId = question_id}
    IN  IF I = {} THEN None
        ELSE user2_answers[CHOOSE i \in I : \A j \in I : j <= i]

\* x + y and x / n of fractions, in lowest terms.
FracAdd(x, y) == Frac(x.num * y.den + y.num * x.den, x.den * y.den)
FracOver(x, n) == Frac(x.num, x.den * n)

\* round(x, 3) of a fraction, in millionths.
round3_frac(x) == RoundTo(x.num * 1000, x.den) * 1000

\* str.lower() on the strings of this model.
lower(interest) ==
    CASE interest = "Music" -> "music"
      [] interest = "Art"   -> "art"
      [] OTHER              -> interest

\* An Optional[List[str]] that is present.
PyList(choices) == [t |-> "list", v |-> choices]

\* The truth value of an Optional[List[str]] and of an Optional[str]:
\* present and not empty.
TruthyList(payload) == payload # None /\ payload.v # <<>>
TruthyStr(payload) == payload # None /\ payload.v # ""

\* The overlap of two choice lists counted on the lists' lengths, so that a
\* choice given twice counts twice.
jaccard_of_lists(choices1, choices2) ==
    Frac(Len(choices1) + Len(choices2)
             - Cardinality(Range(choices1) \cup Range(choices2)),
         Cardinality(Range(choices1) \cup Range(choices2)))

\* len(common) / len(total) of the two choice sets.
jaccard(choices1, choices2) ==
    LET common == Range(choices1) \cap Range(choices2)
        total == Range(choices1) \cup Range(choices2)
    IN  IF total # {} THEN Frac(Cardinality(common), Cardinality(total))
        ELSE Frac(0, 1)

\* The similarity of two answers to one question, as a fraction: the first
\* branch whose payload both answers carry; 0.0 when there is none.
Similarity(answer1, answer2) ==
    IF answer1.numericAnswer # None /\ answer2.numericAnswer # None
    THEN LET max_distance == 10
             distance == Abs(answer1.numericAnswer.v - answer2.numericAnswer.v)
         IN  Frac(max_distance - distance, max_distance)
    ELSE IF answer1.booleanAnswer # None /\ answer2.booleanAnswer # None
    THEN IF answer1.booleanAnswer = answer2.booleanAnswer
         THEN Frac(1, 1) ELSE Frac(0, 1)
    ELSE IF /\ TruthyList(answer1.multipleChoiceAnswer)
            /\ TruthyList(answer2.multipleChoiceAnswer)
    THEN jaccard(answer1.multipleChoiceAnswer.v,
                 answer2.multipleChoiceAnswer.v)
    ELSE IF TruthyStr(answer1.textAnswer) /\ TruthyStr(answer2.textAnswer)
    THEN IF lower(answer1.textAnswer.v) = lower(answer2.textAnswer.v)
         THEN Frac(1, 1) ELSE Frac(1, 2)
    ELSE Frac(0, 1)

\* sum(scores) of a list of fractions.
RECURSIVE SumSeq(_)
SumSeq(seq) ==
    IF seq = <<>> THEN Frac(0, 1) ELSE FracAdd(Head(seq), SumSeq(Tail(seq)))

\* The loop over user 1's answers: for each one that user 2 answered as
\* well, its category and the similarity of the two answers.
RECURSIVE CommonSimilarities(_, _)
CommonSimilarities(user1_answers, user2_answers) ==
    IF user1_answers = <<>> THEN <<>>
    ELSE LET answer1 == Head(user1_answers)
             answer2 == AnswerMapGet(user2_answers, answer1.questionId)
             rest == CommonSimilarities(Tail(user1_answers), user2_answers)
         IN  IF answer2 = None THEN rest
             ELSE <<[category |-> answer1.category,
                     similarity |-> Similarity(answer1, answer2)]>> \o rest

\* The similarities of a list of [category, similarity] entries.
SimilaritiesOf(entries) == [i \in DOMAIN entries |-> entries[i].similarity]

RECURSIVE InCategory(_, _)
InCategory(entries, category) ==
    IF entries = <<>> THEN <<>>
    ELSE (IF Head(entries).category = category THEN <<Head(entries)>> ELSE <<>>)
         \o InCategory(Tail(entries), category)

Categories == {"communication", "values", "lifestyle", "personality"}

\* The mean of all the similarities, whatever their category.
category_average_of_all(entries, category) ==
    LET scores == SimilaritiesOf(entries)
    IN  IF scores # <<>> THEN round3_frac(FracOver(SumSeq(scores), Len(scores)))
        ELSE Micro \div 2

\* category_averages[category], rounded: the mean of the category's
\* similarities, 0.5 when it has none.
category_average(entries, category) ==
    LET scores == SimilaritiesOf(InCategory(entries, category))
    IN  IF scores # <<>> THEN round3_frac(FracOver(SumSeq(scores), Len(scores)))
        ELSE Micro \div 2

\* calculate_personality_score: the five fields, in millionths.
calculate_personality_score(user1_answers, user2_answers) ==
    IF user1_answers = <<>> \/ user2_answers = <<>>
    THEN [personalityScore |-> Micro \div 2]
         @@ [category \in Categories |-> Micro \div 2]
    ELSE LET entries == CommonSimilarities(user1_answers, user2_answers)
             common_questions == Len(entries)
             personality_score ==
                 IF common_questions > 0
                 THEN round3_frac(FracOver(SumSeq(SimilaritiesOf(entries)),
                                           common_questions))
                 ELSE Micro \div 2
         IN  [personalityScore |-> personality_score]
             @@ [category \in Categories |->
                    category_average(entries, category)]

\* extract_shared_interests: the common lower-cased interests (returned
\* sorted; kept as a set).
extract_shared_interests(user1_interests, user2_interests) ==
    IF user1_interests = <<>> \/ user2_interests = <<>> THEN {}
    ELSE {lower(i) : i \in Range(user1_interests)}
            \cap {lower(i) : i \in Range(user2_interests)}

\* calculate_compatibility_v1: the whole result, the score in tenths of a
\* point.
compatibility_v1_result(user1_profile, user2_profile) ==
    LET personality_result ==
            calculate_personality_score(user1_profile.personalityAnswers,
                                        user2_profile.personalityAnswers)
    IN  [compatibilityScore |->
             \* round(personalityScore * 100, 1)
             RoundTo(personality_result.personalityScore * 100, Micro \div 10),
         personalityScore |-> personality_result.personalityScore,
         details |-> [category \in Categories |-> personality_result[category]],
         sharedInterests |->
             extract_shared_interests(user1_profile.interests,
                                      user2_profile.interests)]

\* calculate_compatibility_v1, as the dictionary the cache and the response
\* model take.
calculate_compatibility_v1(user1_profile, user2_profile) ==
    LET result == compatibility_v1_result(user1_profile, user2_profile)
    IN  ResultDict(result.compatibilityScore, result.details.personality)

\* The truth value of an Optional[int] or Optional[float]: present and not 0.
TruthyNumber(x) == x # None /\ x.v # 0

\* _calculate_dealbreaker_alignment raises a TypeError: the chained
\* comparison min_age <= user2_age <= max_age meets a None, which
\* preferences.get gives for a minAge or maxAge that is present and null.
\* The second comparison is made only if the first one holds.
dealbreaker_alignment_raises(user1_profile, user2_profile) ==
    LET preferences == user1_profile.preferences
        user2_age == user2_profile.age
    IN  /\ TruthyNumber(user2_age)
        /\ preferences # None
        /\ \/ preferences.minAge = None
           \/ /\ preferences.minAge.v <= user2_age.v
              /\ preferences.maxAge = None

\* _calculate_dealbreaker_alignment when it returns, in millionths.  The
\* preferences of a profile are None or a dictionary of Optional values.
calculate_dealbreaker_alignment(user1_profile, user2_profile) ==
    LET preferences == user1_profile.preferences
        user2_age == user2_profile.age
        age_checked == TruthyNumber(user2_age)
        min_age == IF preferences = None THEN PyInt(18) ELSE preferences.minAge
        max_age == IF preferences = None THEN PyInt(100) ELSE preferences.maxAge
        age_penalty ==
            IF age_checked /\ ~(/\ min_age.v <= user2_age.v
                                /\ user2_age.v <= max_age.v)
            THEN 300000 ELSE 0
        user1_lat == user1_profile.latitude
        user1_lon == user1_profile.longitude
        user2_lat == user2_profile.latitude
        user2_lon == user2_profile.longitude
        max_distance == IF preferences = None THEN None
                        ELSE preferences.maxDistance
        distance_checked ==
            /\ TruthyNumber(user1_lat) /\ TruthyNumber(user1_lon)
            /\ TruthyNumber(user2_lat) /\ TruthyNumber(user2_lon)
            /\ TruthyNumber(max_distance)
        lat_diff == Abs(user1_lat.v - user2_lat.v)
        lon_diff == Abs(user1_lon.v - user2_lon.v)
        \* ((lat_diff ** 2 + lon_diff ** 2) ** 0.5) * 111 > max_distance
        too_far == \/ max_distance.v < 0
                   \/ (lat_diff * lat_diff + lon_diff * lon_diff) * 111 * 111
                          > max_distance.v * max_distance.v
        distance_penalty == IF distance_checked /\ too_far THEN 200000 ELSE 0
        preferred_gender == IF preferences = None THEN None
                            ELSE preferences.gender
        user2_gender == user2_profile.gender
        gender_checked == TruthyStr(preferred_gender) /\ TruthyStr(user2_gender)
        gender_penalty ==
            IF gender_checked /\ preferred_gender # user2_gender
                              /\ preferred_gender # PyStr("any")
            THEN 400000 ELSE 0
        checks_performed == (IF age_checked THEN 1 ELSE 0)
                            + (IF distance_checked THEN 1 ELSE 0)
                            + (IF gender_checked THEN 1 ELSE 0)
        alignment_score ==
            Micro - age_penalty - distance_penalty - gender_penalty
    IN  IF checks_performed = 0 THEN 700000
        ELSE Max(0, Min(Micro, alignment_score))

\* The reasons of generate_match_reasons before the general one is added.
match_reasons_found(breakdown, shared_interests, personality_details) ==
    (IF breakdown.personality >= 80
     THEN <<"Tres forte compatibilite de personnalite">>
     ELSE IF breakdown.personality >= 65
     THEN <<"Bonne compatibilite de personnalite">>
     ELSE IF breakdown.personality >= 50
     THEN <<"Compatibilite de personnalite prometteuse">> ELSE <<>>)
    \o (IF personality_details.communication >= 750000
        THEN <<"Style de communication compatible">> ELSE <<>>)
    \o (IF personality_details.values >= 750000
        THEN <<"Valeurs de vie alignees">> ELSE <<>>)
    \o (IF personality_details.lifestyle >= 750000
        THEN <<"Style de vie similaire">> ELSE <<>>)
    \o (IF breakdown.interests >= 70 /\ shared_interests # <<>>
        THEN <<"Interets communs">>
        ELSE IF breakdown.interests >= 50 /\ shared_interests # <<>>
        THEN <<"centres d'interet en commun">> ELSE <<>>)
    \o (IF breakdown.values >= 80
        THEN <<"Objectifs relationnels tres compatibles">>
        ELSE IF breakdown.values >= 65
        THEN <<"Objectifs relationnels compatibles">> ELSE <<>>)

\* generate_match_reasons; the breakdown is on the 0-100 scale, the details
\* are in millionths, and the two reasons about interests are kept without
\* the names and the number they carry (the texts without their accents).
generate_match_reasons(breakdown, shared_interests, personality_details) ==
    LET reasons == match_reasons_found(breakdown, shared_interests,
                                       personality_details)
    IN  IF reasons = <<>> THEN <<"Profil interessant a decouvrir">>
        ELSE reasons

-----------------------------------------------------------------------------
(* services/advanced_scoring.py; timestamps are hours before now *)

\* A decay that is back at 1.0 after thirty days.
calculate_activity_score_rising(last_active_at, last_login_at) ==
    IF last_active_at = None /\ last_login_at = None THEN Micro \div 2
    ELSE LET h == IF last_active_at = None THEN last_login_at.v
                  ELSE IF last_login_at = None THEN last_active_at.v
                  ELSE Min(last_active_at.v, last_login_at.v)
         IN  IF h <= 24 THEN Micro - (h * 100000) \div 24
             ELSE IF h <= 72 THEN 900000 - ((h - 24) * 200000) \div 48
             ELSE IF h <= 168 THEN 700000 - ((h - 72) * 200000) \div 96
             ELSE IF h <= 720 THEN 500000 - ((h - 168) * 200000) \div 552
             ELSE Micro

calculate_activity_score(last_active_at, last_login_at) ==
    IF last_active_at = None /\ last_login_at = None THEN Micro \div 2
    ELSE LET hours_since_activity ==
                 IF last_active_at = None THEN last_login_at.v
                 ELSE IF last_login_at = None THEN last_active_at.v
                 ELSE Min(last_active_at.v, last_login_at.v)
             h == hours_since_activity
         IN  IF h <= 24 THEN Micro - (h * 100000) \div 24
             ELSE IF h <= 72 THEN 900000 - ((h - 24) * 200000) \div 48
             ELSE IF h <= 168 THEN 700000 - ((h - 72) * 200000) \div 96
             ELSE IF h <= 720 THEN 500000 - ((h - 168) * 200000) \div 552
             ELSE Max(0, 300000 - ((h - 720) * 300000) \div 720)

\* The cases with the message counters looked at before matches_count.
calculate_response_rate_score_messages_first(messages_sent, messages_received, matches_count) ==
    IF messages_sent = 0 /\ messages_received = 0 THEN 300000
    ELSE IF matches_count = 0 THEN 700000
    ELSE IF messages_received = 0 THEN 500000
    ELSE IF messages_sent = 0 THEN 200000
    ELSE LET ratio == (messages_sent * Micro) \div messages_received
             score ==
                 IF /\ 7 * messages_received <= 10 * messages_sent
                    /\ 2 * messages_sent <= 3 * messages_received
                 THEN Micro
                 ELSE IF 10 * messages_sent < 7 * messages_received
                 THEN Max(200000, (ratio * 10) \div 7)
                 ELSE Max(500000, Micro - (ratio - 1500000) \div 5)
         IN  Min(Micro, score + Min(messages_sent + messages_received, 100) * 1000)

calculate_response_rate_score(messages_sent, messages_received, matches_count) ==
    IF matches_count = 0 THEN 700000
    ELSE IF messages_sent = 0 /\ messages_received = 0 THEN 300000
    ELSE IF messages_received = 0 THEN 500000
    ELSE IF messages_sent = 0 THEN 200000
    ELSE LET ratio == (messages_sent * Micro) \div messages_received
             score ==
                 IF /\ 7 * messages_received <= 10 * messages_sent
                    /\ 2 * messages_sent <= 3 * messages_received
                 THEN Micro
                 ELSE IF 10 * messages_sent < 7 * messages_received
                 THEN Max(200000, (ratio * 10) \div 7)
                 ELSE Max(500000, Micro - (ratio - 1500000) \div 5)
             message_activity == Min(messages_sent + messages_received, 100)
             activity_bonus == message_activity * 1000
         IN  Min(Micro, score + activity_bonus)

calculate_reciprocity_score(mutual_interests_count, mutual_dealbreaker_alignment, personality_compatibility) ==
    LET interest_score == Min(Micro, (mutual_interests_count * Micro) \div 5)
        reciprocity == (mutual_dealbreaker_alignment * 40
                        + personality_compatibility * 35
                        + interest_score * 25) \div 100
    IN  Min(Micro, Max(0, reciprocity))

\* The scores of calculate_advanced_score from the five it combines, each
\* rounded to three decimals; the two averages are halved together with
\* the weights 0.3, 0.4 and 0.3.
AdvancedResult(user_activity, target_activity, user_response, target_response, reciprocity_score) ==
    [activityScore |-> RoundTo(user_activity + target_activity, 2000) * 1000,
     responseRateScore |-> RoundTo(user_response + target_response, 2000) * 1000,
     reciprocityScore |-> round3(reciprocity_score),
     advancedScore |->
         RoundTo((user_activity + target_activity) * 30
                     + (user_response + target_response) * 40
                     + reciprocity_score * 60, 200000) * 1000,
     details |-> [userActivity |-> round3(user_activity),
                  targetActivity |-> round3(target_activity),
                  userResponseRate |-> round3(user_response),
                  targetResponseRate |-> round3(target_response)]]

\* calculate_advanced_score; user_data carries the profile's activity
\* fields, mutualInterests and dealbreakerAlignment.
calculate_advanced_score(user_data, target_user_data, personality_compatibility) ==
    AdvancedResult(
        calculate_activity_score(user_data.lastActiveAt, user_data.lastLoginAt),
        calculate_activity_score(target_user_data.lastActiveAt,
                                 target_user_data.lastLoginAt),
        calculate_response_rate_score(user_data.messagesSent,
            user_data.messagesReceived, user_data.matchesCount),
        calculate_response_rate_score(target_user_data.messagesSent,
            target_user_data.messagesReceived, target_user_data.matchesCount),
        calculate_reciprocity_score(user_data.mutualInterests,
            user_data.dealbreakerAlignment, personality_compatibility))

\* user1_data / user2_data of calculate_compatibility_v2.
AdvancedData(profile, other, shared_interests) ==
    [lastActiveAt |-> profile.lastActiveAt,
     lastLoginAt |-> profile.lastLoginAt,
     messagesSent |-> profile.messagesSent,
     messagesReceived |-> profile.messagesReceived,
     matchesCount |-> profile.matchesCount,
     mutualInterests |-> Cardinality(shared_interests),
     dealbreakerAlignment |-> calculate_dealbreaker_alignment(profile, other)]

\* The result of calculate_compatibility_v2 from its two parts; V1_WEIGHT is
\* 0.6 and V2_WEIGHT 0.4, the score is in tenths of a point.
BlendV2(personality_result, advanced_result, shared_interests) ==
    [compatibilityScore |->
         \* round(final_score * 100, 1)
         RoundTo(personality_result.personalityScore * 60
                     + advanced_result.advancedScore * 40, 100000),
     personalityScore |-> personality_result.personalityScore,
     details |-> [category \in Categories |-> personality_result[category]],
     advancedFactors |->
         [activityScore |-> advanced_result.activityScore,
          responseRateScore |-> advanced_result.responseRateScore,
          reciprocityScore |-> advanced_result.reciprocityScore,
          details |-> advanced_result.details],
     advancedScore |-> advanced_result.advancedScore,
     sharedInterests |-> shared_interests]

\* The advanced score of a pair from the personality result and the shared
\* interests.
AdvancedOf(user1_profile, user2_profile, personality_result, shared_interests) ==
    calculate_advanced_score(
        AdvancedData(user1_profile, user2_profile, shared_interests),
        AdvancedData(user2_profile, user1_profile, shared_interests),
        personality_result.personalityScore)

\* calculate_compatibility_v2 raises: it computes the alignment in both
\* directions (lines 246 and 258) before anything is combined.
compatibility_v2_raises(user1_profile, user2_profile) ==
    \/ dealbreaker_alignment_raises(user1_profile, user2_profile)
    \/ dealbreaker_alignment_raises(user2_profile, user1_profile)

\* calculate_compatibility_v2: the whole result, when it returns.
compatibility_v2_result(user1_profile, user2_profile) ==
    LET personality_result ==
            calculate_personality_score(user1_profile.personalityAnswers,
                                        user2_profile.personalityAnswers)
        shared_interests == extract_shared_interests(user1_profile.interests,
                                                     user2_profile.interests)
    IN  BlendV2(personality_result,
                AdvancedOf(user1_profile, user2_profile, personality_result,
                           shared_interests),
                shared_interests)

\* calculate_compatibility_v2, as the dictionary the cache and the response
\* model take.
calculate_compatibility_v2(user1_profile, user2_profile) ==
    LET result == compatibility_v2_result(user1_profile, user2_profile)
    IN  ResultDict(result.compatibilityScore, result.details.personality)

-----------------------------------------------------------------------------
(* main.py: the V1 and V2 compatibility endpoints *)

\* CompatibilityResult(**result) / CompatibilityResultV2(**result): the
\* score must lie in [0, 100] and each detail in [0, 1].
Validates(result) ==
    /\ 0 <= result.compatibilityScore /\ result.compatibilityScore <= 1000
    /\ 0 <= result.personality /\ result.personality <= Micro

\* The bound on stats["total_calculations"].
MaxStatsCount == 2

\* The statistics after a direct computation with this result.
StatsAfter(version, result) ==
    LET total == stats.total_calculations + 1
        current_avg == stats.average_score
    IN  [total_calculations |-> total,
         total_v2_calculations |->
             stats.total_v2_calculations + (IF version = V2 THEN 1 ELSE 0),
         average_score |->
             Frac(current_avg.num * (total - 1)
                      + result.compatibilityScore * current_avg.den,
                  current_avg.den * total)]

\* One request to an endpoint: the cache lookup, the direct computation on
\* a miss, cache.set, the statistics and the response.  An exception inside
\* the try block becomes HTTP 500.  get_fail and set_fail: the GET and the
\* SETEX raise a RedisError.
Endpoint(name, version, user1Profile, user2Profile, get_fail, set_fail) ==
    LET user1_id == user1Profile.userId
        user2_id == user2Profile.userId
        got == cache_get(user1_id, user2_id, version, get_fail)
        cached_result == got.ret
        result == IF version = V1
                  THEN calculate_compatibility_v1(user1Profile, user2Profile)
                  ELSE calculate_compatibility_v2(user1Profile, user2Profile)
        base == [name |-> name, v |-> version, a |-> user1_id, b |-> user2_id,
                 direct |-> result]
    IN  IF got.raised
        THEN \* json.loads raised inside cache.get
             /\ op' = base @@ [get |-> "raised", set_ret |-> None,
                               status |-> 500, body |-> None]
             /\ UNCHANGED <<inflight, cacheObj, store, live, stats, algoObj>>
        ELSE IF cached_result # None
        THEN \* cached_result['compatibilityScore'], then the response model
             /\ op' = base @@
                   IF cached_result.t = "dict" /\ Validates(cached_result)
                   THEN [get |-> "hit", set_ret |-> None, status |-> 200,
                         body |-> cached_result]
                   ELSE [get |-> "hit", set_ret |-> None, status |-> 500,
                         body |-> None]
             /\ UNCHANGED <<inflight, cacheObj, store, live, stats, algoObj>>
        ELSE LET out == cache_set(user1_id, user2_id, result, version, None,
                                  set_fail)
             IN  /\ WithinCapacity(out.store)
                 /\ stats.total_calculations < MaxStatsCount
                 /\ store' = out.store
                 /\ live' = LiveAfterSet(user1_id, user2_id, result, version, out)
                 /\ stats' = StatsAfter(version, result)
                 /\ op' = base @@
                       [get |-> IF got.failed THEN "failed" ELSE "miss",
                        set_ret |-> out.ret,
                        status |-> IF Validates(result) THEN 200 ELSE 500,
                        body |-> IF Validates(result) THEN result ELSE None]
                 /\ UNCHANGED <<inflight, cacheObj, algoObj>>

PostCalculateCompatibility(user1Profile, user2Profile, get_fail, set_fail) ==
    Endpoint("calculate_compatibility", V1, user1Profile, user2Profile,
             get_fail, set_fail)

PostCalculateCompatibilityV2(user1Profile, user2Profile, get_fail, set_fail) ==
    Endpoint("calculate_compatibility_v2", V2, user1Profile, user2Profile,
             get_fail, set_fail)

\* The request profiles: two users, each with two states of their answers.
ApiProfilesA ==
    {UserProfile(A, <<>>), UserProfile(A, <<PersonalityAnswer("q1", PyInt(7))>>)}
ApiProfilesB ==
    {UserProfile(B, <<PersonalityAnswer("q1", PyInt(7))>>),
     UserProfile(B, <<PersonalityAnswer("q1", PyInt(3))>>)}
ApiRequests ==
    (ApiProfilesA \X ApiProfilesB) \cup (ApiProfilesB \X ApiProfilesA)

\* The database at start: empty, or one string of another writer under a
\* key of the pair.
ApiInitialStores ==
    {<<>>} \cup {make_key(A, B, v) :> s :
                    v \in Versions, s \in {NotJson, ForeignJson}}

ApiInit ==
    /\ \E enabled_arg \in BOOLEAN, ping_ok \in BOOLEAN :
          Constructed(enabled_arg, ping_ok)
    /\ store \in ApiInitialStores
    /\ live = <<>>
    /\ stats = StatsInit
    /\ calculation_count = 0
    /\ total_compatibility_score = 0
    /\ inflight = <<>>
    /\ op = NoCall

ApiNext ==
    \/ \E r \in ApiRequests, get_fail \in BOOLEAN, set_fail \in BOOLEAN :
          PostCalculateCompatibility(r[1], r[2], get_fail, set_fail)
    \/ \E r \in ApiRequests, get_fail \in BOOLEAN, set_fail \in BOOLEAN :
          PostCalculateCompatibilityV2(r[1], r[2], get_fail, set_fail)
    \/ \E key \in DOMAIN store : Expire(key)

SpecApi == ApiInit /\ [][ApiNext]_vars

IsCompatibilityRequest(o) ==
    o.name \in {"calculate_compatibility", "calculate_compatibility_v2"}

\* C5: every request to the V1 or V2 endpoint ends with a valid result whose
\* compatibilityScore is in [0, 100], whatever the cache holds and however
\* get and set fail; after a miss or a failed get it is the result of the
\* direct computation, whether or not cache.set succeeded.
C5_RequestEndsWithValidResult ==
    IsCompatibilityRequest(op) =>
        /\ op.status = 200
        /\ 0 <= op.body.compatibilityScore /\ op.body.compatibilityScore <= 1000
        /\ op.get \in {"miss", "failed"} => op.body = op.direct


-----------------------------------------------------------------------------
(* app/models/matching.py and app/core/config.py *)

\* UserProfile of the app package.  Every location of this model lies on
\* the equator (latitude 0) at a whole degree of longitude, and a user has
\* at most one personality answer, numeric if it has a payload.
AppPreferences(min_age, max_age, max_distance, interested_in_genders) ==
    [min_age |-> min_age, max_age |-> max_age, max_distance |-> max_distance,
     interested_in_genders |-> interested_in_genders]

AppProfile(user_id, age, gender, longitude, personality_answers, preferences, interests) ==
    [user_id |-> user_id, age |-> age, gender |-> gender,
     location |-> [latitude |-> 0, longitude |-> longitude],
     personality_answers |-> personality_answers,
     preferences |-> preferences, interests |-> interests]

\* settings.MIN_COMPATIBILITY_SCORE = 0.3, in millionths.
MIN_COMPATIBILITY_SCORE == 300000

-----------------------------------------------------------------------------
(* app/services/matching_algorithm.py: MatchingAlgorithm *)

\* _calculate_distance, in metres, for two points on the equator: the
\* haversine formula gives r * |dlon| with r = 6371 km and dlon in radians,
\* 111195 m for each degree.
calculate_distance(lat1, lon1, lat2, lon2) == Abs(lon2 - lon1) * 111195

check_basic_compatibility_forward_only(user1, user2) ==
    /\ user1.preferences.min_age <= user2.age
    /\ user2.age <= user1.preferences.max_age
    /\ user2.gender \in user1.preferences.interested_in_genders
    /\ calculate_distance(user1.location.latitude, user1.location.longitude,
                          user2.location.latitude, user2.location.longitude)
          <= user1.preferences.max_distance * 1000

check_basic_compatibility(user1, user2) ==
    LET distance ==
            calculate_distance(user1.location.latitude, user1.location.longitude,
                               user2.location.latitude, user2.location.longitude)
    IN  IF ~(user1.preferences.min_age <= user2.age
             /\ user2.age <= user1.preferences.max_age) THEN FALSE
        ELSE IF ~(user2.preferences.min_age <= user1.age
                  /\ user1.age <= user2.preferences.max_age) THEN FALSE
        ELSE IF user2.gender \notin user1.preferences.interested_in_genders
        THEN FALSE
        ELSE IF user1.gender \notin user2.preferences.interested_in_genders
        THEN FALSE
        ELSE IF \/ distance > user1.preferences.max_distance * 1000
                \/ distance > user2.preferences.max_distance * 1000
        THEN FALSE
        ELSE TRUE

\* _create_personality_vector: the numeric answers, in order.
RECURSIVE create_personality_vector(_)
create_personality_vector(answers) ==
    IF answers = <<>> THEN <<>>
    ELSE (IF Head(answers).numeric_answer # None
          THEN <<Head(answers).numeric_answer.v>> ELSE <<>>)
         \o create_personality_vector(Tail(answers))

\* cosine_similarity of two one-dimensional vectors, in millionths: the sign
\* of the product (sklearn gives 0 when a vector is zero).
cosine_similarity(vector1, vector2) ==
    LET dot == vector1[1] * vector2[1]
    IN  IF dot > 0 THEN Micro ELSE IF dot < 0 THEN -Micro ELSE 0

calculate_personality_compatibility(answers1, answers2) ==
    IF answers1 = <<>> \/ answers2 = <<>> THEN Micro \div 2
    ELSE LET vector1 == create_personality_vector(answers1)
             vector2 == create_personality_vector(answers2)
         IN  IF Len(vector1) = 0 \/ Len(vector2) = 0 THEN Micro \div 2
             ELSE LET similarity == cosine_similarity(vector1, vector2)
                      compatibility_score == (similarity + Micro) \div 2
                  IN  Max(0, Min(Micro, compatibility_score))

calculate_age_preference_overlap(user1, user2) ==
    LET range1_start == user1.preferences.min_age
        range1_end == user1.preferences.max_age
        range2_start == user2.preferences.min_age
        range2_end == user2.preferences.max_age
        overlap_start == Max(range1_start, range2_start)
        overlap_end == Min(range1_end, range2_end)
    IN  IF overlap_start <= overlap_end
        THEN LET overlap_size == overlap_end - overlap_start + 1
                 total_range == Max(range1_end, range2_end)
                                - Min(range1_start, range2_start) + 1
             IN  (overlap_size * Micro) \div total_range
        ELSE 0

calculate_preferences_compatibility(user1, user2) ==
    LET age_overlap == calculate_age_preference_overlap(user1, user2)
        distance ==
            calculate_distance(user1.location.latitude, user1.location.longitude,
                               user2.location.latitude, user2.location.longitude)
        max_distance == Min(user1.preferences.max_distance,
                            user2.preferences.max_distance)
        \* distance in metres over max_distance in kilometres
        distance_score ==
            IF max_distance > 0
            THEN Max(0, Micro - (distance * 1000) \div max_distance)
            ELSE Micro
    IN  (age_overlap + distance_score) \div 2

find_shared_interests(interests1, interests2) ==
    IF interests1 = <<>> \/ interests2 = <<>> THEN {}
    ELSE Range(interests1) \cap Range(interests2)

\* _generate_compatibility_reasons; the reason about shared interests is
\* kept without the names it lists.
generate_compatibility_reasons(personality_score, preferences_score, shared_interests) ==
    LET reasons ==
            (IF personality_score > 700000
             THEN <<"Highly compatible personalities">>
             ELSE IF personality_score > 500000
             THEN <<"Good personality match">> ELSE <<>>)
            \o (IF preferences_score > 700000
                THEN <<"Well-aligned preferences">>
                ELSE IF preferences_score > 500000
                THEN <<"Compatible preferences">> ELSE <<>>)
            \o (IF Cardinality(shared_interests) > 2
                THEN <<"Many shared interests">>
                ELSE IF Cardinality(shared_interests) > 0
                THEN <<"Shared interests">> ELSE <<>>)
    IN  IF reasons = <<>> THEN <<"Basic compatibility criteria met">>
        ELSE reasons

\* calculate_compatibility: the response, and the addition to
\* calculation_count and total_compatibility_score.
calculate_compatibility(user1_profile, user2_profile) ==
    IF ~check_basic_compatibility(user1_profile, user2_profile)
    THEN [compatibility_score |-> 0, personality_compatibility |-> 0,
          preferences_compatibility |-> 0, shared_interests |-> {},
          reasons |-> <<"Basic compatibility criteria not met">>,
          counted |-> 0, added |-> 0]
    ELSE LET personality_score ==
                 calculate_personality_compatibility(
                     user1_profile.personality_answers,
                     user2_profile.personality_answers)
             preferences_score ==
                 calculate_preferences_compatibility(user1_profile,
                                                     user2_profile)
             shared_interests == find_shared_interests(user1_profile.interests,
                                                       user2_profile.interests)
             \* COMPATIBILITY_WEIGHTS_PERSONALITY 0.6, _PREFERENCES 0.4
             weighted == (personality_score * 60 + preferences_score * 40)
                             \div 100
             interest_boost == Min(Cardinality(shared_interests) * 50000, 200000)
             final_score == Min(weighted + interest_boost, Micro)
         IN  [compatibility_score |-> round3(final_score),
              personality_compatibility |-> round3(personality_score),
              preferences_compatibility |-> round3(preferences_score),
              shared_interests |-> shared_interests,
              reasons |-> generate_compatibility_reasons(personality_score,
                              preferences_score, shared_interests),
              counted |-> 1, added |-> final_score]


-----------------------------------------------------------------------------
(* Selection: sorting and slicing *)

\* list[:n], for any integer n.
Slice(list, n) ==
    IF n >= 0 THEN SubSeq(list, 1, Min(n, Len(list)))
    ELSE SubSeq(list, 1, Max(0, Len(list) + n))

\* x placed behind every item whose score is greater than its own.
RECURSIVE insert_desc_unstable(_, _)
insert_desc_unstable(sorted, x) ==
    IF sorted = <<>> THEN <<x>>
    ELSE IF Head(sorted).score > x.score
    THEN <<Head(sorted)>> \o insert_desc_unstable(Tail(sorted), x)
    ELSE <<x>> \o sorted

\* x placed behind every item whose score is at least its own.
RECURSIVE insert_desc(_, _)
insert_desc(sorted, x) ==
    IF sorted = <<>> THEN <<x>>
    ELSE IF Head(sorted).score >= x.score
    THEN <<Head(sorted)>> \o insert_desc(Tail(sorted), x)
    ELSE <<x>> \o sorted

\* sorted(items, key=score, reverse=True) and list.sort(key=score,
\* reverse=True): descending, items of equal score in their original order.
RECURSIVE sorted_desc(_)
sorted_desc(items) ==
    IF items = <<>> THEN <<>>
    ELSE insert_desc(sorted_desc(SubSeq(items, 1, Len(items) - 1)),
                     items[Len(items)])

\* The positions pos[i] of a sequence of items.
Positions(items) == [i \in DOMAIN items |-> items[i].pos]

-----------------------------------------------------------------------------
(* main.py: generate_daily_selection *)

\* scores[user_id] = score on a dictionary kept as the sequence of its
\* items: a new key goes to the end, a known key keeps its place.  pos is
\* the place in availableProfiles where the key was first seen.
DictSet(items, user_id, score, pos) ==
    IF \E i \in DOMAIN items : items[i].user_id = user_id
    THEN [i \in DOMAIN items |->
             IF items[i].user_id = user_id
             THEN [items[i] EXCEPT !.score = score] ELSE items[i]]
    ELSE Append(items, [user_id |-> user_id, score |-> score, pos |-> pos])

\* The scores dictionary after the first n available profiles.
RECURSIVE ScoresAfter(_, _, _)
ScoresAfter(userProfile, availableProfiles, n) ==
    IF n = 0 THEN <<>>
    ELSE DictSet(ScoresAfter(userProfile, availableProfiles, n - 1),
                 availableProfiles[n].userId,
                 calculate_compatibility_v1(userProfile, availableProfiles[n])
                     .compatibilityScore,
                 n)

\* The body of the handler for one request: the response, with the places
\* in availableProfiles of the selected and of the scored candidates and
\* the score of every candidate.  The request model puts no bound on
\* selectionSize.
daily_selection(userProfile, availableProfiles, selectionSize) ==
    LET scores == ScoresAfter(userProfile, availableProfiles,
                              Len(availableProfiles))
        sorted_profiles == sorted_desc(scores)
        selected == Slice(sorted_profiles, selectionSize)
    IN  [name |-> "generate_daily_selection",
         candidates |-> [i \in DOMAIN availableProfiles |->
                            availableProfiles[i].userId],
         size |-> selectionSize,
         status |-> 200,
         selected |-> Positions(selected),
         selectedProfiles |-> [i \in DOMAIN selected |-> selected[i].user_id],
         retained |-> {scores[i].pos : i \in DOMAIN scores},
         score |-> [i \in DOMAIN availableProfiles |->
                       calculate_compatibility_v1(userProfile,
                           availableProfiles[i]).compatibilityScore]]

-----------------------------------------------------------------------------
(* MatchingAlgorithm.generate_daily_selection and the routes of app/api *)

\* The bound on MatchingAlgorithm.calculation_count.
MaxCalculations == 3

PassesThreshold_NoFilter(compatibility_score) == TRUE

\* compatibility.compatibility_score >= settings.MIN_COMPATIBILITY_SCORE
PassesThreshold(compatibility_score) ==
    compatibility_score >= MIN_COMPATIBILITY_SCORE

\* The loop over available_profiles after its first n rounds: the
\* compatibility_scores dictionary, compatible_profiles (as places in
\* available_profiles) and what the calls added to the two counters.
RECURSIVE LoopAfter(_, _, _)
LoopAfter(user_profile, available_profiles, n) ==
    IF n = 0
    THEN [compatibility_scores |-> <<>>, compatible_profiles |-> <<>>,
          counted |-> 0, added |-> 0]
    ELSE LET before == LoopAfter(user_profile, available_profiles, n - 1)
             profile == available_profiles[n]
             compatibility == calculate_compatibility(user_profile, profile)
             tally == [before EXCEPT
                          !.counted = @ + compatibility.counted,
                          !.added = @ + compatibility.added]
         IN  IF PassesThreshold(compatibility.compatibility_score)
             THEN [tally EXCEPT
                      !.compatibility_scores =
                          (profile.user_id :> compatibility.compatibility_score)
                              @@ @,
                      !.compatible_profiles = Append(@, n)]
             ELSE tally

\* generate_daily_selection: the response (selected as places in
\* available_profiles), the score and the gate outcome of every candidate,
\* and the additions to the two counters.  An empty list returns at once,
\* with what the loop gives for it: nothing selected, nothing counted.
generate_daily_selection(user_profile, available_profiles, selection_size) ==
    LET loop == LoopAfter(user_profile, available_profiles,
                          Len(available_profiles))
        compatibility_scores == loop.compatibility_scores
        keyed == [i \in DOMAIN loop.compatible_profiles |->
                     [pos |-> loop.compatible_profiles[i],
                      score |-> compatibility_scores[
                          available_profiles[
                              loop.compatible_profiles[i]].user_id]]]
        compatible_profiles == sorted_desc(keyed)
        selected_profiles == Slice(compatible_profiles, selection_size)
        selected_scores ==
            [id \in {available_profiles[selected_profiles[i].pos].user_id :
                        i \in DOMAIN selected_profiles} |->
                compatibility_scores[id]]
    IN  [counted |-> loop.counted,
         added |-> loop.added,
         response |->
             [name |-> "MatchingAlgorithm.generate_daily_selection",
              candidates |-> [i \in DOMAIN available_profiles |->
                                 available_profiles[i].user_id],
              size |-> selection_size,
              status |-> 200,
              selected |-> Positions(selected_profiles),
              compatibility_scores |-> selected_scores,
              retained |-> Range(loop.compatible_profiles),
              score |-> [i \in DOMAIN available_profiles |->
                            calculate_compatibility(user_profile,
                                available_profiles[i]).compatibility_score],
              eligible |-> [i \in DOMAIN available_profiles |->
                               check_basic_compatibility(user_profile,
                                   available_profiles[i])]]]

-----------------------------------------------------------------------------
(* SpecSelect: the two selection procedures and calculate_compatibility *)

\* The bounds on the length of a candidate list and on the selection size.
MaxCandidates == 3
MaxSelectionSize == 2

\* All sequences over S of length 0..n.
SeqsUpTo(S, n) == UNION {[1..k -> S] : k \in 0..n}

AppAnswer(n) == <<[question_id |-> "q1", numeric_answer |-> PyInt(n)]>>

\* The requester, and candidates that pass the gate against her: "h" scores
\* 1.0, "m" 0.7 and "l" 0.252.
Requester ==
    AppProfile("u", 30, "woman", 0, AppAnswer(7),
               AppPreferences(25, 35, 300, {"man"}), <<"music", "art">>)
High ==
    AppProfile("h", 30, "man", 0, AppAnswer(8),
               AppPreferences(25, 35, 300, {"woman"}), <<"music">>)
Mid == [High EXCEPT !.user_id = "m", !.age = 28, !.personality_answers = <<>>,
                    !.interests = <<>>]
Low == [High EXCEPT !.user_id = "l", !.location.longitude = 2,
                    !.personality_answers = AppAnswer(-3), !.interests = <<>>]

\* Candidates that violate one basic criterion each: her age range, their
\* age range, her gender interest, theirs, her distance limit, theirs.
TooOld == [High EXCEPT !.user_id = "g", !.age = 40, !.preferences.max_age = 45]
WantsOlder == [High EXCEPT !.user_id = "g2", !.preferences.min_age = 35,
                           !.preferences.max_age = 45]
Woman == [High EXCEPT !.user_id = "g3", !.gender = "woman"]
WantsMen == [High EXCEPT !.user_id = "g4",
                         !.preferences.interested_in_genders = {"man"}]
TooFar == [High EXCEPT !.user_id = "g5", !.location.longitude = 3,
                       !.preferences.max_distance = 500]
StaysNear == [High EXCEPT !.user_id = "g6", !.location.longitude = 1,
                          !.preferences.max_distance = 100]

AppCandidates == {TooOld, Low, Mid, High}
Ineligible == {TooOld, WantsOlder, Woman, WantsMen, TooFar, StaysNear}
CalculationPairs ==
    LET others == Ineligible \cup {Low, Mid, High}
    IN  ({Requester} \X others) \cup (others \X {Requester})

\* main.py: the requester and three candidates, scoring 100, 100 and 60.
SelRequester == UserProfile(A, <<PersonalityAnswer("q1", PyInt(7))>>)
SelCandidates ==
    {UserProfile(B, <<PersonalityAnswer("q1", PyInt(7))>>),
     UserProfile(BB, <<PersonalityAnswer("q1", PyInt(7))>>),
     UserProfile(AB, <<PersonalityAnswer("q1", PyInt(3))>>)}

\* The requests of this specification and what the three handlers compute
\* for them; @@ <<>> leaves a function as it is and has TLC tabulate it once.
DailySelectionRequests ==
    SeqsUpTo(SelCandidates, MaxCandidates) \X (-1..MaxSelectionSize)
DailySelectionResults ==
    [request \in DailySelectionRequests |->
        daily_selection(SelRequester, request[1], request[2])] @@ <<>>

AppSelectionRequests ==
    SeqsUpTo(AppCandidates, MaxCandidates) \X (1..MaxSelectionSize)
AppSelectionResults ==
    [request \in AppSelectionRequests |->
        generate_daily_selection(Requester, request[1], request[2])] @@ <<>>

CalculationResults ==
    [pair \in CalculationPairs |->
        calculate_compatibility(pair[1], pair[2])] @@ <<>>

\* POST /api/v1/matching-service/generate-daily-selection (main.py)
PostGenerateDailySelection(request) ==
    \E result \in {DailySelectionResults[request]} :
        /\ op' = result
        /\ UNCHANGED <<inflight, cacheObj, store, live, stats, algoObj>>

\* POST /generate-daily-selection (app/api): the request model accepts a
\* selection_size from 1 to 10; any other is answered 422 and the handler
\* does not run.
RejectDailySelection(selection_size) ==
    /\ selection_size < 1 \/ selection_size > 10
    /\ op' = [name |-> "MatchingAlgorithm.generate_daily_selection",
              size |-> selection_size, status |-> 422]
    /\ UNCHANGED <<inflight, cacheObj, store, live, stats, algoObj>>

GenerateDailySelection(request) ==
    \E result \in {AppSelectionResults[request]} :
        /\ calculation_count + result.counted <= MaxCalculations
        /\ calculation_count' = calculation_count + result.counted
        /\ total_compatibility_score' = total_compatibility_score + result.added
        /\ op' = result.response
        /\ UNCHANGED <<inflight, cacheObj, store, live, stats>>

\* POST /calculate-compatibility (app/api)
CalculateCompatibility(pair) ==
    \E result \in {CalculationResults[pair]} :
        /\ calculation_count + result.counted <= MaxCalculations
        /\ calculation_count' = calculation_count + result.counted
        /\ total_compatibility_score' = total_compatibility_score + result.added
        /\ op' = [name |-> "MatchingAlgorithm.calculate_compatibility",
                  user1_profile |-> pair[1],
                  user2_profile |-> pair[2],
                  response |-> [compatibility_score |->
                                    result.compatibility_score,
                                personality_compatibility |->
                                    result.personality_compatibility,
                                preferences_compatibility |->
                                    result.preferences_compatibility,
                                shared_interests |-> result.shared_interests,
                                reasons |-> result.reasons]]
        /\ UNCHANGED <<inflight, cacheObj, store, live, stats>>

SelectInit ==
    /\ Constructed(FALSE, FALSE)
    /\ store = <<>>
    /\ live = <<>>
    /\ stats = StatsInit
    /\ calculation_count = 0
    /\ total_compatibility_score = 0
    /\ inflight = <<>>
    /\ op = NoCall

SelectNext ==
    \/ \E request \in DailySelectionRequests :
          PostGenerateDailySelection(request)
    \/ \E request \in AppSelectionRequests : GenerateDailySelection(request)
    \/ \E selection_size \in {0} : RejectDailySelection(selection_size)
    \/ \E pair \in CalculationPairs : CalculateCompatibility(pair)

SpecSelect == SelectInit /\ [][SelectNext]_vars

-----------------------------------------------------------------------------
(* main.py: batch_compatibility and the statistics of the four endpoints *)

\* The results dictionary after the first n profiles to compare.
RECURSIVE ResultsAfter(_, _, _)
ResultsAfter(baseProfile, profilesToCompare, n) ==
    IF n = 0 THEN <<>>
    ELSE DictSet(ResultsAfter(baseProfile, profilesToCompare, n - 1),
                 profilesToCompare[n].userId,
                 calculate_compatibility_v1(baseProfile, profilesToCompare[n]),
                 n)

\* POST /api/v1/matching-service/batch-compatibility: one V1 computation
\* for each profile to compare, then the count of the profiles is added to
\* stats["total_calculations"]; average_score is not written.
PostBatchCompatibility(baseProfile, profilesToCompare) ==
    /\ stats.total_calculations + Len(profilesToCompare) <= MaxStatsCount
    /\ stats' = [stats EXCEPT !.total_calculations =
                                  @ + Len(profilesToCompare)]
    /\ op' = [name |-> "batch_compatibility",
              base |-> baseProfile.userId,
              compared |-> [i \in DOMAIN profilesToCompare |->
                               profilesToCompare[i].userId],
              status |-> 200,
              results |-> ResultsAfter(baseProfile, profilesToCompare,
                                       Len(profilesToCompare)),
              score |-> [i \in DOMAIN profilesToCompare |->
                            calculate_compatibility_v1(baseProfile,
                                profilesToCompare[i]).compatibilityScore]]
    /\ UNCHANGED <<inflight, cacheObj, store, live, algoObj>>

\* The bound on the length of profilesToCompare.
MaxBatch == 2

BatchRequests == ApiProfilesA \X SeqsUpTo(ApiProfilesB, MaxBatch)

\* The daily-selection requests sent along with the other three endpoints.
StatsSelectionRequests ==
    {request \in DailySelectionRequests :
        Len(request[1]) <= 2 /\ request[2] = 1}

\* The process starts with the cache asked for and an empty database.
StatsSpecInit ==
    /\ \E ping_ok \in BOOLEAN : Constructed(TRUE, ping_ok)
    /\ store = <<>>
    /\ live = <<>>
    /\ stats = StatsInit
    /\ calculation_count = 0
    /\ total_compatibility_score = 0
    /\ inflight = <<>>
    /\ op = NoCall

StatsNext ==
    \/ \E r \in ApiRequests, get_fail \in BOOLEAN :
          PostCalculateCompatibility(r[1], r[2], get_fail, FALSE)
    \/ \E r \in ApiRequests, get_fail \in BOOLEAN :
          PostCalculateCompatibilityV2(r[1], r[2], get_fail, FALSE)
    \/ \E r \in BatchRequests : PostBatchCompatibility(r[1], r[2])
    \/ \E request \in StatsSelectionRequests :
          PostGenerateDailySelection(request)
    \/ \E key \in DOMAIN store : Expire(key)

SpecStats == StatsSpecInit /\ [][StatsNext]_vars

-----------------------------------------------------------------------------
(* main.py: two requests for one pair and version on two workers *)

\* A handler has no await, so one worker runs it to the end; two workers
\* of the service run theirs side by side against the same Redis database.
\* Both build their CacheService the same way.  stats is the dictionary of
\* the worker that handles the first request.
RaceProfilesA ==
    {[UserProfile(A, <<PersonalityAnswer("q1", PyInt(7))>>) EXCEPT
         !.age = PyInt(30),
         !.preferences = UserPreferences(PyInt(25), PyInt(35), None)]}
RaceProfilesB ==
    {[UserProfile(B, <<PersonalityAnswer("q1", PyInt(7))>>) EXCEPT
         !.age = age] : age \in {PyInt(30), PyInt(40)}}

\* A request that has reached the handler.
Arrived(version, user1Profile, user2Profile) ==
    [pc |-> "get", v |-> version,
     user1Profile |-> user1Profile, user2Profile |-> user2Profile,
     result |-> None, status |-> 0, body |-> None]

\* What the computation of the handler returns for a request.
DirectResult(request) ==
    IF request.v = V1
    THEN calculate_compatibility_v1(request.user1Profile, request.user2Profile)
    ELSE calculate_compatibility_v2(request.user1Profile, request.user2Profile)

\* cache.get of request i and what the handler does with a cached result.
RaceGet(i, get_fail) ==
    /\ i \in DOMAIN inflight
    /\ inflight[i].pc = "get"
    /\ \E got \in {cache_get(inflight[i].user1Profile.userId,
                             inflight[i].user2Profile.userId,
                             inflight[i].v, get_fail)} :
          /\ inflight' = [inflight EXCEPT ![i] =
                IF got.raised
                THEN [@ EXCEPT !.pc = "done", !.status = 500]
                ELSE IF got.ret # None
                THEN IF got.ret.t = "dict" /\ Validates(got.ret)
                     THEN [@ EXCEPT !.pc = "done", !.status = 200,
                                    !.body = got.ret]
                     ELSE [@ EXCEPT !.pc = "done", !.status = 500]
                ELSE [@ EXCEPT !.pc = "compute"]]
          /\ op' = [name |-> "cache.get", request |-> i,
                    get |-> IF got.raised THEN "raised"
                            ELSE IF got.ret # None THEN "hit"
                            ELSE IF got.failed THEN "failed" ELSE "miss"]
    /\ UNCHANGED <<cacheObj, store, live, stats, algoObj>>

\* The direct computation of request i.
RaceCompute(i) ==
    /\ i \in DOMAIN inflight
    /\ inflight[i].pc = "compute"
    /\ \E result \in {DirectResult(inflight[i])} :
          /\ inflight' = [inflight EXCEPT ![i] =
                             [@ EXCEPT !.pc = "set", !.result = result]]
          /\ op' = [name |-> "compute", request |-> i, ret |-> result]
    /\ UNCHANGED <<cacheObj, store, live, stats, algoObj>>

\* cache.set of request i, the statistics and the response.
RaceSet(i, set_fail) ==
    /\ i \in DOMAIN inflight
    /\ inflight[i].pc = "set"
    /\ \E result \in {inflight[i].result} :
       \E out \in {cache_set(inflight[i].user1Profile.userId,
                             inflight[i].user2Profile.userId,
                             result, inflight[i].v, None, set_fail)} :
          /\ store' = out.store
          /\ live' = LiveAfterSet(inflight[i].user1Profile.userId,
                                  inflight[i].user2Profile.userId,
                                  result, inflight[i].v, out)
          /\ stats' = IF i = 1 THEN StatsAfter(inflight[i].v, result)
                      ELSE stats
          /\ inflight' = [inflight EXCEPT ![i] =
                [@ EXCEPT !.pc = "done",
                          !.status = IF Validates(result) THEN 200 ELSE 500,
                          !.body = IF Validates(result) THEN result
                                   ELSE None]]
          /\ op' = [name |-> "cache.set", request |-> i, ret |-> out.ret]
    /\ UNCHANGED <<cacheObj, algoObj>>

\* Two requests for the same two users and the same version arrive, the
\* second naming the users in the same or in the opposite order.
RaceInit ==
    /\ \E ping_ok \in BOOLEAN : Constructed(TRUE, ping_ok)
    /\ store = <<>>
    /\ live = <<>>
    /\ stats = StatsInit
    /\ calculation_count = 0
    /\ total_compatibility_score = 0
    /\ op = NoCall
    /\ \E version \in Versions, a \in RaceProfilesA, b \in RaceProfilesB :
          inflight \in {<<Arrived(version, a, b), Arrived(version, a, b)>>,
                        <<Arrived(version, a, b), Arrived(version, b, a)>>}

RaceNext ==
    \/ \E i \in 1..2, get_fail \in BOOLEAN : RaceGet(i, get_fail)
    \/ \E i \in 1..2 : RaceCompute(i)
    \/ \E i \in 1..2, set_fail \in BOOLEAN : RaceSet(i, set_fail)

SpecRace == RaceInit /\ [][RaceNext]_vars


IsMainSelection(o) == o.name = "generate_daily_selection"
IsAppSelection(o) ==
    o.name = "MatchingAlgorithm.generate_daily_selection" /\ o.status = 200

\* C7: the daily selection of main.py never returns more profiles than the
\* requested size, for every size its request model accepts; it returns
\* min(size, number of distinct candidates) profiles, and nothing, without
\* an error, for an empty candidate list.
C7_AtMostRequestedSize ==
    IsMainSelection(op) =>
        /\ op.status = 200
        /\ Len(op.selectedProfiles) <= op.size
        /\ Len(op.selectedProfiles)
              = Min(op.size, Cardinality(Range(op.candidates)))
        /\ op.candidates = <<>> => op.selectedProfiles = <<>>

\* C8: MatchingAlgorithm.generate_daily_selection never selects, and never
\* returns a score for, a candidate whose compatibility score is below
\* MIN_COMPATIBILITY_SCORE; a candidate that fails the basic gate (score 0)
\* is never selected.
C8_NoneBelowThreshold ==
    IsAppSelection(op) =>
        /\ \A i \in DOMAIN op.selected :
              /\ op.score[op.selected[i]] >= MIN_COMPATIBILITY_SCORE
              /\ op.eligible[op.selected[i]]
        /\ \A id \in DOMAIN op.compatibility_scores :
              /\ op.compatibility_scores[id] >= MIN_COMPATIBILITY_SCORE
              /\ \A pos \in DOMAIN op.candidates :
                    op.candidates[pos] = id =>
                        /\ op.score[pos] >= MIN_COMPATIBILITY_SCORE
                        /\ op.eligible[pos]

\* C8's case: the list held a candidate failing the gate and one passing it
\* with a score below the threshold, and something was selected.
C8_Witness ==
    /\ IsAppSelection(op)
    /\ \E pos \in DOMAIN op.candidates : ~op.eligible[pos]
    /\ \E pos \in DOMAIN op.candidates :
          /\ op.eligible[pos]
          /\ op.score[pos] > 0
          /\ op.score[pos] < MIN_COMPATIBILITY_SCORE
    /\ op.selected # <<>>

\* C9: in both selection procedures the selected list is a prefix of the
\* retained candidates ordered by score descending, equal scores in input
\* order: of two selected candidates the earlier has the greater or equal
\* score, and on equal scores came first in the input; no retained
\* candidate left out has a greater score than a selected one, nor an
\* equal score and an earlier place in the input.
C9_SelectedIsSortedPrefix ==
    (IsMainSelection(op) \/ IsAppSelection(op)) =>
        /\ \A i \in DOMAIN op.selected : op.selected[i] \in op.retained
        /\ \A i \in DOMAIN op.selected : \A j \in DOMAIN op.selected :
              i < j =>
                  /\ op.score[op.selected[i]] >= op.score[op.selected[j]]
                  /\ op.score[op.selected[i]] = op.score[op.selected[j]]
                        => op.selected[i] < op.selected[j]
        /\ \A k \in op.retained \ Range(op.selected) :
              \A i \in DOMAIN op.selected :
                  /\ op.score[k] <= op.score[op.selected[i]]
                  /\ op.score[k] = op.score[op.selected[i]]
                        => op.selected[i] < k

\* C9's case: two candidates of equal score were selected, the second of
\* them from behind a retained candidate of lower score that was left out.
C9_Witness ==
    /\ IsMainSelection(op) \/ IsAppSelection(op)
    /\ \E i \in DOMAIN op.selected : \E j \in DOMAIN op.selected :
          /\ i < j
          /\ op.score[op.selected[i]] = op.score[op.selected[j]]
          /\ \E k \in op.retained \ Range(op.selected) :
                /\ k < op.selected[j]
                /\ op.score[k] < op.score[op.selected[j]]

\* Some basic criterion is violated, in either direction.
BasicCriterionViolated(user1, user2) ==
    LET distance ==
            calculate_distance(user1.location.latitude, user1.location.longitude,
                               user2.location.latitude, user2.location.longitude)
    IN  \/ user2.age < user1.preferences.min_age
        \/ user2.age > user1.preferences.max_age
        \/ user1.age < user2.preferences.min_age
        \/ user1.age > user2.preferences.max_age
        \/ user2.gender \notin user1.preferences.interested_in_genders
        \/ user1.gender \notin user2.preferences.interested_in_genders
        \/ distance > user1.preferences.max_distance * 1000
        \/ distance > user2.preferences.max_distance * 1000

\* A calculate_compatibility step on a pair violating a basic criterion
\* answers score 0, sub-scores 0, no shared interest and the one reason
\* given, and leaves the two counters as they were.
GateShortCircuits(reason) ==
    (/\ op'.name = "MatchingAlgorithm.calculate_compatibility"
     /\ BasicCriterionViolated(op'.user1_profile, op'.user2_profile)) =>
        /\ op'.response =
              [compatibility_score |-> 0, personality_compatibility |-> 0,
               preferences_compatibility |-> 0, shared_interests |-> {},
               reasons |-> <<reason>>]
        /\ calculation_count' = calculation_count
        /\ total_compatibility_score' = total_compatibility_score

\* C10 (as the code has it): whenever a basic criterion is violated in
\* either direction, calculate_compatibility returns score 0, sub-scores 0,
\* an empty shared-interest list and the single reason
\* "Basic compatibility criteria not met", and leaves calculation_count and
\* total_compatibility_score unchanged.
C10_GateShortCircuits ==
    [][GateShortCircuits("Basic compatibility criteria not met")]_vars

\* C10 as stated, the reason being "basic compatibility criteria not met".
C10_AsStated ==
    [][GateShortCircuits("basic compatibility criteria not met")]_vars

\* C10's case: after a counted calculation, a pair that violates a
\* criterion only in the direction from the second user to the first was
\* answered.
C10_Witness ==
    /\ op.name = "MatchingAlgorithm.calculate_compatibility"
    /\ BasicCriterionViolated(op.user1_profile, op.user2_profile)
    /\ check_basic_compatibility_forward_only(op.user1_profile,
                                              op.user2_profile)
    /\ op.response.compatibility_score = 0
    /\ calculation_count > 0

-----------------------------------------------------------------------------
(* SpecCalc: the calculators called on their own, one call per step *)

\* The bound on the length of an answer list.
MaxAnswers == 2

\* Answers of the four kinds, each kind to its own question: numeric (on the
\* scale and beyond it), boolean, multiple choice and text; and a numeric
\* answer to the question the boolean answers are given to.
Answers ==
    {Answer("q1", "values", PyInt(n), None, None, None) : n \in {1, 7, 10, 100}}
    \cup {Answer("q2", "communication", None, PyBool(b), None, None) :
             b \in BOOLEAN}
    \cup {Answer("q2", "communication", PyInt(7), None, None, None)}
    \cup {Answer("q3", "lifestyle", None, None, PyList(choices), None) :
             choices \in {<<"a", "b">>, <<"b", "c">>, <<"a", "a">>, <<>>}}
    \cup {Answer("q4", "personality", None, None, None, PyStr("Music")),
          Answer("q4", "personality", None, None, None, PyStr("music")),
          Answer("q4", "other", None, None, None, PyStr("art"))}
AnswerLists == SeqsUpTo(Answers, MaxAnswers)

\* A call that is about to be made: the function and its arguments.
Pending(f, args) == [name |-> "call", f |-> f, args |-> args]

IsPending(f) == op.name = "call" /\ op.f = f

\* calculate_personality_score(user1_answers, user2_answers); similarities
\* are the values the loop gave to similarity, in order.
CallPersonalityScore ==
    /\ IsPending("calculate_personality_score")
    /\ op' = [name |-> "calculate_personality_score",
              user1_answers |-> op.args.user1_answers,
              user2_answers |-> op.args.user2_answers,
              similarities |->
                  SimilaritiesOf(CommonSimilarities(op.args.user1_answers,
                                                    op.args.user2_answers)),
              ret |-> calculate_personality_score(op.args.user1_answers,
                                                  op.args.user2_answers)]
    /\ UNCHANGED <<inflight, cacheObj, store, live, stats, algoObj>>

\* Profiles for the preference checks: the declared preferences, the place,
\* the age and the gender of a user.
Preferences(gender, maxDistance) ==
    [UserPreferences(PyInt(25), PyInt(35), gender)
        EXCEPT !.maxDistance = maxDistance]
PreferenceProfiles(userId) ==
    {[UserProfile(userId, <<>>) EXCEPT
         !.preferences = preferences, !.latitude = place[1],
         !.longitude = place[2], !.age = age, !.gender = gender] :
        preferences \in
            {None} \cup {Preferences(gender, maxDistance) :
                            gender \in {None, PyStr("any"), PyStr("woman")},
                            maxDistance \in {None, PyInt(100)}},
        place \in {<<None, None>>, <<PyInt(0), PyInt(1)>>,
                   <<PyInt(1), PyInt(1)>>, <<PyInt(3), PyInt(3)>>},
        age \in {None, PyInt(30), PyInt(40)},
        gender \in {None, PyStr("man"), PyStr("woman")}}

\* _calculate_dealbreaker_alignment(user1_profile, user2_profile)
CallDealbreakerAlignment ==
    /\ IsPending("_calculate_dealbreaker_alignment")
    /\ op' = [name |-> "_calculate_dealbreaker_alignment",
              user1_profile |-> op.args.user1_profile,
              user2_profile |-> op.args.user2_profile,
              raised |-> FALSE,
              ret |-> calculate_dealbreaker_alignment(op.args.user1_profile,
                                                      op.args.user2_profile)]
    /\ UNCHANGED <<inflight, cacheObj, store, live, stats, algoObj>>

\* The times of the last activity and login of a profile, in hours before
\* now: negative when the time is later than now.
Times == {None, PyInt(-240), PyInt(2), PyInt(100), PyInt(1440)}

\* Profiles for calculate_compatibility_v1 and _v2.  A user of age 30 with
\* one numeric answer and one interest, varied in one respect at a time:
\* the times of the last activity and login, the answers, the message and
\* match counters, and the declared age range (whole, or with a bound that
\* is null) with the age.
CalcProfiles(userId) ==
    LET base ==
            [UserProfile(userId,
                         <<Answer("q1", "values", PyInt(7), None, None, None)>>)
                EXCEPT !.age = PyInt(30), !.interests = <<"Music">>]
    IN  {[base EXCEPT !.lastActiveAt = last_active_at,
                      !.lastLoginAt = last_login_at] :
            last_active_at \in Times, last_login_at \in Times}
        \cup {[base EXCEPT !.personalityAnswers = answers] :
                 answers \in {<<>>} \cup
                     {<<answer>> : answer \in
                         {a \in Answers : a.questionId \in {"q1", "q3"}}}}
        \cup {[base EXCEPT !.messagesSent = messages_sent,
                           !.messagesReceived = messages_received,
                           !.matchesCount = matches_count] :
                 messages_sent \in {0, 5, 50}, messages_received \in {0, 5, 50},
                 matches_count \in {0, 3}}
        \cup {[base EXCEPT !.preferences = preferences, !.age = age] :
                 preferences \in
                     {Preferences(None, None),
                      [Preferences(None, None) EXCEPT !.minAge = None],
                      [Preferences(None, None) EXCEPT !.maxAge = None]},
                 age \in {PyInt(30), PyInt(40)}}

\* calculate_compatibility_v1(user1_profile, user2_profile)
CallCompatibilityV1 ==
    /\ IsPending("calculate_compatibility_v1")
    /\ op' = [name |-> "calculate_compatibility_v1",
              user1_profile |-> op.args.user1_profile,
              user2_profile |-> op.args.user2_profile,
              raised |-> FALSE,
              ret |-> compatibility_v1_result(op.args.user1_profile,
                                              op.args.user2_profile)]
    /\ UNCHANGED <<inflight, cacheObj, store, live, stats, algoObj>>

\* calculate_compatibility_v2(user1_profile, user2_profile); raised: a
\* TypeError left the call, and there is no result.
CallCompatibilityV2 ==
    /\ IsPending("calculate_compatibility_v2")
    /\ op' = [name |-> "calculate_compatibility_v2",
              user1_profile |-> op.args.user1_profile,
              user2_profile |-> op.args.user2_profile,
              raised |-> compatibility_v2_raises(op.args.user1_profile,
                                                 op.args.user2_profile),
              ret |-> IF compatibility_v2_raises(op.args.user1_profile,
                                                 op.args.user2_profile)
                      THEN None
                      ELSE compatibility_v2_result(op.args.user1_profile,
                                                   op.args.user2_profile)]
    /\ UNCHANGED <<inflight, cacheObj, store, live, stats, algoObj>>

\* Times around the breakpoints of the activity score, in hours before now.
ActivityTimes ==
    {None} \cup {PyInt(h) : h \in {-240, 0, 1, 23, 24, 25, 71, 72, 73, 167, 168,
                                    169, 719, 720, 721, 1000, 1439, 1440, 1441,
                                    2000}}

\* calculate_activity_score(last_active_at, last_login_at, account_created_at)
CallActivityScore ==
    /\ IsPending("calculate_activity_score")
    /\ op' = [name |-> "calculate_activity_score",
              last_active_at |-> op.args.last_active_at,
              last_login_at |-> op.args.last_login_at,
              ret |-> calculate_activity_score(op.args.last_active_at,
                                               op.args.last_login_at)]
    /\ UNCHANGED <<inflight, cacheObj, store, live, stats, algoObj>>

\* Message counters on both sides of the ratios 0.7 and 1.5 and of the
\* bonus cap of 100 messages.
MessageCounts == {0, 1, 3, 5, 7, 10, 15, 50, 100, 200}

\* calculate_response_rate_score(messages_sent, messages_received,
\* matches_count)
CallResponseRateScore ==
    /\ IsPending("calculate_response_rate_score")
    /\ op' = [name |-> "calculate_response_rate_score",
              messages_sent |-> op.args.messages_sent,
              messages_received |-> op.args.messages_received,
              matches_count |-> op.args.matches_count,
              ret |-> calculate_response_rate_score(op.args.messages_sent,
                                                    op.args.messages_received,
                                                    op.args.matches_count)]
    /\ UNCHANGED <<inflight, cacheObj, store, live, stats, algoObj>>

InterestLists == SeqsUpTo({"Music", "music", "art"}, 2)

\* CompatibilityCalculator.extract_shared_interests(user1_interests,
\* user2_interests)
CallExtractSharedInterests ==
    /\ IsPending("extract_shared_interests")
    /\ op' = [name |-> "extract_shared_interests",
              interests1 |-> op.args.interests1,
              interests2 |-> op.args.interests2,
              ret |-> extract_shared_interests(op.args.interests1,
                                               op.args.interests2)]
    /\ UNCHANGED <<inflight, cacheObj, store, live, stats, algoObj>>

\* MatchingAlgorithm._find_shared_interests(interests1, interests2)
CallFindSharedInterests ==
    /\ IsPending("_find_shared_interests")
    /\ op' = [name |-> "_find_shared_interests",
              interests1 |-> op.args.interests1,
              interests2 |-> op.args.interests2,
              ret |-> find_shared_interests(op.args.interests1,
                                            op.args.interests2)]
    /\ UNCHANGED <<inflight, cacheObj, store, live, stats, algoObj>>

\* CompatibilityCalculator.generate_match_reasons(breakdown,
\* shared_interests, personality_details)
CallGenerateMatchReasons ==
    /\ IsPending("generate_match_reasons")
    /\ op' = [name |-> "generate_match_reasons",
              breakdown |-> op.args.breakdown,
              shared_interests |-> op.args.shared_interests,
              personality_details |-> op.args.personality_details,
              ret |-> generate_match_reasons(op.args.breakdown,
                                             op.args.shared_interests,
                                             op.args.personality_details)]
    /\ UNCHANGED <<inflight, cacheObj, store, live, stats, algoObj>>

\* MatchingAlgorithm._generate_compatibility_reasons(personality_score,
\* preferences_score, shared_interests)
CallGenerateCompatibilityReasons ==
    /\ IsPending("_generate_compatibility_reasons")
    /\ op' = [name |-> "_generate_compatibility_reasons",
              personality_score |-> op.args.personality_score,
              preferences_score |-> op.args.preferences_score,
              shared_interests |-> op.args.shared_interests,
              ret |-> generate_compatibility_reasons(op.args.personality_score,
                                                     op.args.preferences_score,
                                                     op.args.shared_interests)]
    /\ UNCHANGED <<inflight, cacheObj, store, live, stats, algoObj>>

\* The calls of this specification, each with the arguments it is made
\* with.  The calculators keep no state, so a behaviour is one call: its
\* arguments, then its result.
IsCalcCall(call) ==
    \/ call \in {Pending("calculate_personality_score",
                          [user1_answers |-> user1_answers,
                           user2_answers |-> user2_answers]) :
                     user1_answers \in AnswerLists, user2_answers \in AnswerLists}
    \/ call \in {Pending("_calculate_dealbreaker_alignment",
                          [user1_profile |-> user1_profile,
                           user2_profile |-> user2_profile]) :
                     user1_profile \in PreferenceProfiles(A),
                     user2_profile \in PreferenceProfiles(B)}
    \/ call \in {Pending(f, [user1_profile |-> user1_profile,
                              user2_profile |-> user2_profile]) :
                     f \in {"calculate_compatibility_v1",
                            "calculate_compatibility_v2"},
                     user1_profile \in CalcProfiles(A),
                     user2_profile \in CalcProfiles(B)}
    \/ call \in {Pending("calculate_activity_score",
                          [last_active_at |-> last_active_at,
                           last_login_at |-> last_login_at]) :
                     last_active_at \in ActivityTimes,
                     last_login_at \in ActivityTimes}
    \/ call \in {Pending("calculate_response_rate_score",
                          [messages_sent |-> messages_sent,
                           messages_received |-> messages_received,
                           matches_count |-> matches_count]) :
                     messages_sent \in MessageCounts,
                     messages_received \in MessageCounts,
                     matches_count \in {0, 3}}
    \/ call \in {Pending(f, [interests1 |-> interests1,
                              interests2 |-> interests2]) :
                     f \in {"extract_shared_interests", "_find_shared_interests"},
                     interests1 \in InterestLists, interests2 \in InterestLists}
    \/ call \in {Pending("generate_match_reasons",
                          [breakdown |-> [personality |-> personality,
                                          interests |-> interests,
                                          values |-> values],
                           shared_interests |-> shared_interests,
                           personality_details |-> personality_details]) :
                     personality \in {0, 49, 50, 65, 80},
                     interests \in {49, 50, 70}, values \in {64, 65, 80},
                     shared_interests \in {<<>>, <<"music">>,
                                           <<"art", "music", "film", "food">>},
                     personality_details \in
                         [{"communication", "values", "lifestyle"} ->
                             {749999, 750000}]}
    \/ call \in {Pending("_generate_compatibility_reasons",
                          [personality_score |-> personality_score,
                           preferences_score |-> preferences_score,
                           shared_interests |-> shared_interests]) :
                     personality_score \in {0, 500000, 500001, 700000, 700001},
                     preferences_score \in {0, 500000, 500001, 700000, 700001},
                     shared_interests \in {{}, {"music"}, {"art", "music"},
                                           {"art", "music", "film"}}}

CalcInit ==
    /\ Constructed(FALSE, FALSE)
    /\ store = <<>>
    /\ live = <<>>
    /\ stats = StatsInit
    /\ calculation_count = 0
    /\ total_compatibility_score = 0
    /\ inflight = <<>>
    /\ IsCalcCall(op)

CalcNext ==
    \/ CallPersonalityScore
    \/ CallDealbreakerAlignment
    \/ CallCompatibilityV1
    \/ CallCompatibilityV2
    \/ CallActivityScore
    \/ CallResponseRateScore
    \/ CallExtractSharedInterests
    \/ CallFindSharedInterests
    \/ CallGenerateMatchReasons
    \/ CallGenerateCompatibilityReasons

SpecCalc == CalcInit /\ [][CalcNext]_vars

\* A call of calculate_personality_score on one answer each to the same
\* question.
IsSingleSharedQuestion(o) ==
    /\ o.name = "calculate_personality_score"
    /\ Len(o.user1_answers) = 1 /\ Len(o.user2_answers) = 1
    /\ o.user1_answers[1].questionId = o.user2_answers[1].questionId

\* The two answers are numeric, both on the scale from 1 to 10.
IsOnScale(o) ==
    \A answer \in {o.user1_answers[1], o.user2_answers[1]} :
        /\ answer.numericAnswer # None
        /\ 1 <= answer.numericAnswer.v /\ answer.numericAnswer.v <= 10

\* What a single shared numeric question gives for the values 1 and 10.
NumericSimilarityHolds(at_opposite_ends) ==
    (IsSingleSharedQuestion(op) /\ IsOnScale(op)) =>
        LET a == op.user1_answers[1].numericAnswer.v
            b == op.user2_answers[1].numericAnswer.v
        IN  /\ op.similarities = <<Frac(10 - Abs(a - b), 10)>>
            /\ op.ret.personalityScore = ((10 - Abs(a - b)) * Micro) \div 10
            /\ a = b => op.ret.personalityScore = Micro
            /\ {a, b} = {1, 10} => op.ret.personalityScore = at_opposite_ends

\* C13 (as amended): for a single shared numeric question on the 1-10 scale
\* the similarity is (10 - |a - b|) / 10: 1.0 for identical values and 0.1
\* for the values 1 and 10.
C13_NumericSimilarity == NumericSimilarityHolds(100000)

\* C13 as stated: the values 1 and 10 give similarity 0.0.
C13_AsStated == NumericSimilarityHolds(0)

C13_Witness ==
    /\ IsSingleSharedQuestion(op) /\ IsOnScale(op)
    /\ op.user1_answers[1].numericAnswer.v = 1
    /\ op.user2_answers[1].numericAnswer.v = 10
    /\ op.ret.personalityScore = 100000

-----------------------------------------------------------------------------
(* Dealbreaker alignment *)

\* The three preference checks of a requester against a target, as the
\* description of the alignment has them: whether the check can be made,
\* and whether the target fails it.
AgeCheckable(requester, target) ==
    requester.preferences # None /\ target.age # None
AgeOutside(requester, target) ==
    /\ AgeCheckable(requester, target)
    /\ requester.preferences.minAge # None
    /\ requester.preferences.maxAge # None
    /\ ~(/\ requester.preferences.minAge.v <= target.age.v
         /\ target.age.v <= requester.preferences.maxAge.v)
DistanceCheckable(requester, target) ==
    /\ requester.preferences # None
    /\ requester.preferences.maxDistance # None
    /\ requester.latitude # None /\ requester.longitude # None
    /\ target.latitude # None /\ target.longitude # None
DistanceExceeded(requester, target) ==
    /\ DistanceCheckable(requester, target)
    /\ LET lat_diff == requester.latitude.v - target.latitude.v
           lon_diff == requester.longitude.v - target.longitude.v
           max_distance == requester.preferences.maxDistance.v
       IN  (lat_diff * lat_diff + lon_diff * lon_diff) * 111 * 111
               > max_distance * max_distance
GenderCheckable(requester, target) ==
    /\ requester.preferences # None
    /\ requester.preferences.gender # None
    /\ target.gender # None
GenderMismatch(requester, target) ==
    /\ GenderCheckable(requester, target)
    /\ requester.preferences.gender # PyStr("any")
    /\ requester.preferences.gender # target.gender

\* C20: _calculate_dealbreaker_alignment(requester, target) is 1.0 less 0.3
\* for a target age outside the requester's range, less 0.2 for a distance
\* beyond the requester's maxDistance, less 0.4 for a gender preference
\* that is specified, not "any" and not the target's gender, clamped to
\* [0, 1]; it is the neutral 0.7 when the requester declares no preferences
\* or no check can be made.
C20_DealbreakerAlignment ==
    op.name = "_calculate_dealbreaker_alignment" =>
        LET requester == op.user1_profile
            target == op.user2_profile
            penalties ==
                (IF AgeOutside(requester, target) THEN 300000 ELSE 0)
                + (IF DistanceExceeded(requester, target) THEN 200000 ELSE 0)
                + (IF GenderMismatch(requester, target) THEN 400000 ELSE 0)
        IN  IF \/ AgeCheckable(requester, target)
               \/ DistanceCheckable(requester, target)
               \/ GenderCheckable(requester, target)
            THEN op.ret = Max(0, Min(Micro, Micro - penalties))
            ELSE op.ret = 700000

-----------------------------------------------------------------------------
(* calculate_compatibility_v1 and calculate_compatibility_v2 *)

\* A hard precondition of the pair fails: in one direction the age is
\* outside the declared range, the gender is not the preferred one or the
\* distance is beyond the declared maximum.
HardPreconditionFails(user1, user2) ==
    \/ AgeOutside(user1, user2) \/ AgeOutside(user2, user1)
    \/ GenderMismatch(user1, user2) \/ GenderMismatch(user2, user1)
    \/ DistanceExceeded(user1, user2) \/ DistanceExceeded(user2, user1)

\* C11: calculate_compatibility_v2 returns compatibilityScore 0 for every
\* pair in which a hard precondition fails.
C11_V2GatedByEligibility ==
    (/\ op.name = "calculate_compatibility_v2" /\ ~op.raised
     /\ HardPreconditionFails(op.user1_profile, op.user2_profile)) =>
        op.ret.compatibilityScore = 0

InUnit(x) == 0 <= x /\ x <= Micro

\* C12: for every pair of accepted profiles the compatibilityScore of
\* calculate_compatibility_v1 and _v2 is in [0, 100] and every sub-score is
\* in [0, 1].
C12_ScoresInRange ==
    /\ (/\ op.name \in {"calculate_compatibility_v1",
                         "calculate_compatibility_v2"}
        /\ ~op.raised) =>
          /\ 0 <= op.ret.compatibilityScore /\ op.ret.compatibilityScore <= 1000
          /\ InUnit(op.ret.personalityScore)
          /\ \A category \in Categories : InUnit(op.ret.details[category])
    /\ (op.name = "calculate_compatibility_v2" /\ ~op.raised) =>
          /\ InUnit(op.ret.advancedFactors.activityScore)
          /\ InUnit(op.ret.advancedFactors.responseRateScore)
          /\ InUnit(op.ret.advancedFactors.reciprocityScore)
          /\ InUnit(op.ret.advancedScore)
          /\ \A detail \in DOMAIN op.ret.advancedFactors.details :
                InUnit(op.ret.advancedFactors.details[detail])

\* The hours since the most recent activity of a user who has any.
HasActivity(profile) ==
    profile.lastActiveAt # None \/ profile.lastLoginAt # None
HoursSinceActivity(profile) ==
    IF profile.lastActiveAt = None THEN profile.lastLoginAt.v
    ELSE IF profile.lastLoginAt = None THEN profile.lastActiveAt.v
    ELSE Min(profile.lastActiveAt.v, profile.lastLoginAt.v)

\* The profiles that differ from this one in the times of activity only and
\* whose most recent activity is as old or older.
Older(profile) ==
    {older \in {[profile EXCEPT !.lastActiveAt = last_active_at,
                                !.lastLoginAt = last_login_at] :
                   last_active_at \in Times, last_login_at \in Times} :
        /\ HasActivity(profile) /\ HasActivity(older)
        /\ HoursSinceActivity(older) >= HoursSinceActivity(profile)}

V2Score(user1_profile, user2_profile) ==
    compatibility_v2_result(user1_profile, user2_profile).compatibilityScore

\* One user inactive for 60 days, the other active two hours ago, with the
\* same personality answers.
IsInactiveActivePair(user1, user2) ==
    /\ user1.lastActiveAt = PyInt(1440) /\ user1.lastLoginAt = None
    /\ user2.lastActiveAt = PyInt(2) /\ user2.lastLoginAt = None
    /\ user1.personalityAnswers = user2.personalityAnswers
    /\ user1.personalityAnswers # <<>>

\* C19: making the most recent activity of either user older never raises
\* the compatibilityScore of calculate_compatibility_v2, and a pair with
\* one user inactive for 60 days scores strictly less than the same pair
\* with both users active within hours.
C19_OlderActivityNeverScoresHigher ==
    (op.name = "calculate_compatibility_v2" /\ ~op.raised) =>
        /\ \A older \in Older(op.user1_profile) :
              V2Score(older, op.user2_profile) <= op.ret.compatibilityScore
        /\ \A older \in Older(op.user2_profile) :
              V2Score(op.user1_profile, older) <= op.ret.compatibilityScore
        /\ IsInactiveActivePair(op.user1_profile, op.user2_profile) =>
              V2Score([op.user1_profile EXCEPT !.lastActiveAt = PyInt(2)],
                      op.user2_profile) > op.ret.compatibilityScore

C19_Witness ==
    /\ op.name = "calculate_compatibility_v2"
    /\ IsInactiveActivePair(op.user1_profile, op.user2_profile)
    /\ op.ret.compatibilityScore = 868
    /\ V2Score([op.user1_profile EXCEPT !.lastActiveAt = PyInt(2)],
               op.user2_profile) = 927

-----------------------------------------------------------------------------
(* calculate_personality_score: multiple choice, and the neutral 0.5 *)

\* C14: for a single shared multiple-choice question the similarity is the
\* Jaccard index |A \cap B| / |A \cup B| of the two choice sets, duplicates
\* ignored and 0 when the union is empty; {a, b} against {b, c} gives 1/3.
C14_JaccardOfChoiceSets ==
    (/\ IsSingleSharedQuestion(op)
     /\ op.user1_answers[1].multipleChoiceAnswer # None
     /\ op.user2_answers[1].multipleChoiceAnswer # None) =>
        LET choices_a == Range(op.user1_answers[1].multipleChoiceAnswer.v)
            choices_b == Range(op.user2_answers[1].multipleChoiceAnswer.v)
            both == Cardinality(choices_a \cap choices_b)
            either == Cardinality(choices_a \cup choices_b)
        IN  /\ either = 0 => op.similarities = <<[num |-> 0, den |-> 1]>>
            /\ either > 0 =>
                  /\ op.similarities[1].num * either = both * op.similarities[1].den
                  /\ op.ret.personalityScore = RoundTo(both * 1000, either) * 1000
            /\ (choices_a = {"a", "b"} /\ choices_b = {"b", "c"}) =>
                  op.similarities = <<[num |-> 1, den |-> 3]>>

C14_Witness ==
    /\ IsSingleSharedQuestion(op)
    /\ op.user1_answers[1].multipleChoiceAnswer = PyList(<<"a", "b">>)
    /\ op.user2_answers[1].multipleChoiceAnswer = PyList(<<"b", "c">>)
    /\ op.similarities = <<[num |-> 1, den |-> 3]>>
    /\ op.ret.lifestyle = 333000

\* The positions of user 1's answers to questions user 2 answered as well.
SharedQuestions(o) ==
    {i \in DOMAIN o.user1_answers :
        \E j \in DOMAIN o.user2_answers :
            o.user2_answers[j].questionId = o.user1_answers[i].questionId}

\* The sum of the similarities at a set of positions, as a fraction.
RECURSIVE SimilaritySum(_, _)
SimilaritySum(o, positions) ==
    IF positions = {} THEN [num |-> 0, den |-> 1]
    ELSE LET i == CHOOSE i \in positions : TRUE
             answer1 == o.user1_answers[i]
             answer2 == AnswerMapGet(o.user2_answers, answer1.questionId)
         IN  FracAdd(Similarity(answer1, answer2),
                     SimilaritySum(o, positions \ {i}))

\* The mean similarity at a set of positions, rounded to three decimals.
MeanSimilarity(o, positions) ==
    round3_frac(FracOver(SimilaritySum(o, positions), Cardinality(positions)))

\* C15: calculate_personality_score returns 0.5 in all five fields when an
\* answer list is empty or the lists share no question; otherwise a
\* category without a shared question reports 0.5 and every other category
\* the mean similarity of its shared questions.
C15_NeutralWithoutSharedQuestions ==
    op.name = "calculate_personality_score" =>
        IF SharedQuestions(op) = {}
        THEN /\ op.ret.personalityScore = 500000
             /\ \A category \in Categories : op.ret[category] = 500000
        ELSE \A category \in Categories :
                LET positions ==
                        {i \in SharedQuestions(op) :
                            op.user1_answers[i].category = category}
                IN  IF positions = {} THEN op.ret[category] = 500000
                    ELSE op.ret[category] = MeanSimilarity(op, positions)

\* Two shared questions in two categories, a third category without one.
C15_Witness ==
    /\ op.name = "calculate_personality_score"
    /\ Len(op.user1_answers) = 2 /\ Cardinality(SharedQuestions(op)) = 2
    /\ op.ret.values = 700000
    /\ op.ret.communication = 0
    /\ op.ret.lifestyle = 500000
    /\ op.ret.personality = 500000
    /\ op.ret.personalityScore = 350000

-----------------------------------------------------------------------------
(* Shared interests, activity and response rate *)

Lowered(interests) == {lower(interest) : interest \in interests}

\* C16: extract_shared_interests and _find_shared_interests return exactly
\* the interests present in both lists when compared without regard to
\* letter case, the same for (A, B) and (B, A), and nothing when a list is
\* empty.
C16_SharedInterestsIgnoreCase ==
    op.name \in {"extract_shared_interests", "_find_shared_interests"} =>
        /\ Lowered(op.ret)
              = Lowered(Range(op.interests1)) \cap Lowered(Range(op.interests2))
        /\ (op.interests1 = <<>> \/ op.interests2 = <<>>) => op.ret = {}
        /\ op.name = "extract_shared_interests" =>
              op.ret = extract_shared_interests(op.interests2, op.interests1)
        /\ op.name = "_find_shared_interests" =>
              op.ret = find_shared_interests(op.interests2, op.interests1)

\* The hours since the more recent of the two times of a call of
\* calculate_activity_score that has one.
CallHours(o) ==
    IF o.last_active_at = None THEN o.last_login_at.v
    ELSE IF o.last_login_at = None THEN o.last_active_at.v
    ELSE Min(o.last_active_at.v, o.last_login_at.v)

Between(low, x, high) == low <= x /\ x <= high

\* C17: calculate_activity_score is 0.5 without a timestamp; otherwise,
\* with h the hours since the more recent one, it is in [0.9, 1.0] for
\* h <= 24, in [0.7, 0.9] for h <= 72, in [0.5, 0.7] for h <= 168, in
\* [0.3, 0.5] for h <= 720 and in [0, 0.3) beyond, with the values 0.9,
\* 0.7, 0.5 and 0.3 at the breakpoints, and it never rises with h.
C17_ActivityDecay ==
    op.name = "calculate_activity_score" =>
        IF op.last_active_at = None /\ op.last_login_at = None
        THEN op.ret = 500000
        ELSE LET h == CallHours(op)
             IN  /\ h <= 24 => Between(900000, op.ret, 1000000)
                 /\ (24 < h /\ h <= 72) => Between(700000, op.ret, 900000)
                 /\ (72 < h /\ h <= 168) => Between(500000, op.ret, 700000)
                 /\ (168 < h /\ h <= 720) => Between(300000, op.ret, 500000)
                 /\ 720 < h => Between(0, op.ret, 299999)
                 /\ h = 24 => op.ret = 900000
                 /\ h = 72 => op.ret = 700000
                 /\ h = 168 => op.ret = 500000
                 /\ h = 720 => op.ret = 300000
                 /\ \A later \in ActivityTimes \ {None} :
                       later.v >= h =>
                           calculate_activity_score(later, None) <= op.ret

\* C18: calculate_response_rate_score takes its cases in the documented
\* order for all non-negative counters, and its result is in [0.2, 1.0].
C18_ResponseRateCases ==
    op.name = "calculate_response_rate_score" =>
        LET sent == op.messages_sent
            received == op.messages_received
            bonus == Min(sent + received, 100) * 1000
        IN  /\ Between(200000, op.ret, 1000000)
            /\ IF op.matches_count = 0 THEN op.ret = 700000
               ELSE IF sent = 0 /\ received = 0 THEN op.ret = 300000
               ELSE IF received = 0 THEN op.ret = 500000
               ELSE IF sent = 0 THEN op.ret = 200000
               ELSE IF 7 * received <= 10 * sent /\ 2 * sent <= 3 * received
               THEN op.ret = 1000000
               ELSE IF 10 * sent < 7 * received
               THEN Abs(op.ret - Min(1000000,
                            Max(200000, (10 * sent * 1000000) \div (7 * received))
                                + bonus)) <= 2
               ELSE Abs(op.ret - Min(1000000,
                            Max(500000, 1300000 - (sent * 200000) \div received)
                                + bonus)) <= 2

\* No matches yet with messages exchanged, and a ratio below 0.7.
C18_Witness ==
    /\ op.name = "calculate_response_rate_score"
    /\ op.messages_sent = 5 /\ op.messages_received = 50
    /\ op.matches_count = 3
    /\ op.ret = 255000

-----------------------------------------------------------------------------
(* The cache key and clear_user_cache, for ids that hold the separator *)

\* C26: _make_key is injective on (unordered pair, version): two calls give
\* the same key only for the same version and the same two ids.
C26_KeyInjective ==
    op.name = "make_key" =>
        \A c \in KeyIds, d \in KeyIds, w \in Versions :
            make_key(c, d, w) = op.key_ab =>
                w = op.v /\ Pair(c, d) = Pair(op.a, op.b)

\* The keys of the pairs that contain the user, and the keys of no such pair.
KeysOfUser(user_id) ==
    {make_key(p[1], p[2], v) : p \in {p \in RequestPairs : user_id \in Pair(p[1], p[2])},
                              v \in Versions}

\* C27: clear_user_cache(u) on a reachable store leaves every entry of a
\* pair without u as it was, and returns the number of entries of u there
\* were before the call.
C27_ClearOnlyOfUser ==
    [][(op'.name = "clear_user_cache" /\ ~Disabled /\ ~op'.failed) =>
          /\ \A key \in (DOMAIN store) \ KeysOfUser(op'.a) :
                key \in DOMAIN store' /\ store'[key] = store[key]
          /\ op'.ret = PyInt(Cardinality(KeysOfUser(op'.a) \cap DOMAIN store))]_vars

-----------------------------------------------------------------------------
(* Absent data, argument order, unmatched answer types, coordinates of 0 *)

\* C22: calculate_compatibility_v1 and _v2 raise nothing for profiles with
\* absent or null answers, location, preferences or preference fields, and
\* use the neutral values: 0.5 for the personality score without answers
\* and for the activity of a user without timestamps.
C22_AbsentDataNeverFaults ==
    op.name \in {"calculate_compatibility_v1", "calculate_compatibility_v2"} =>
        /\ ~op.raised
        /\ (op.user1_profile.personalityAnswers = <<>>
              \/ op.user2_profile.personalityAnswers = <<>>) =>
                op.ret.personalityScore = 500000
        /\ (op.name = "calculate_compatibility_v2"
              /\ ~HasActivity(op.user1_profile)) =>
                op.ret.advancedFactors.details.userActivity = 500000

\* C25: calculate_compatibility_v2(A, B) and calculate_compatibility_v2(B, A)
\* have the same compatibilityScore and the same reciprocityScore.
C25_V2IgnoresArgumentOrder ==
    (op.name = "calculate_compatibility_v2" /\ ~op.raised) =>
        LET swapped == compatibility_v2_result(op.user2_profile, op.user1_profile)
        IN  /\ swapped.compatibilityScore = op.ret.compatibilityScore
            /\ swapped.advancedFactors.reciprocityScore
                  = op.ret.advancedFactors.reciprocityScore

\* A per-type similarity is computed for two answers: both carry a numeric
\* answer, or both a boolean one, or both a choice list that is not empty,
\* or both a text that is not empty.
HasCommonType(answer1, answer2) ==
    \/ answer1.numericAnswer # None /\ answer2.numericAnswer # None
    \/ answer1.booleanAnswer # None /\ answer2.booleanAnswer # None
    \/ /\ TruthyList(answer1.multipleChoiceAnswer)
       /\ TruthyList(answer2.multipleChoiceAnswer)
    \/ TruthyStr(answer1.textAnswer) /\ TruthyStr(answer2.textAnswer)

\* The positions of the shared questions with a computed similarity.
ComputedQuestions(o) ==
    {i \in SharedQuestions(o) :
        HasCommonType(o.user1_answers[i],
                      AnswerMapGet(o.user2_answers,
                                   o.user1_answers[i].questionId))}

\* C29: personalityScore and the category scores are means over the shared
\* questions with a computed similarity only; a shared question whose two
\* answers have no populated type in common changes none of them.
C29_MeanOfComputedSimilarities ==
    op.name = "calculate_personality_score" =>
        /\ op.ret.personalityScore
              = IF ComputedQuestions(op) = {} THEN 500000
                ELSE MeanSimilarity(op, ComputedQuestions(op))
        /\ \A category \in Categories :
              LET positions ==
                      {i \in ComputedQuestions(op) :
                          op.user1_answers[i].category = category}
              IN  op.ret[category] = IF positions = {} THEN 500000
                                     ELSE MeanSimilarity(op, positions)

\* C30: in _calculate_dealbreaker_alignment the distance check is made
\* whenever both users have a latitude and a longitude and the requester a
\* maxDistance, whatever the coordinates: a distance beyond maxDistance
\* then takes 0.2 off and the check counts as performed.
C30_DistanceCheckedAtZero ==
    (/\ op.name = "_calculate_dealbreaker_alignment"
     /\ DistanceCheckable(op.user1_profile, op.user2_profile)) =>
        LET requester == op.user1_profile
            target == op.user2_profile
            others ==
                (IF AgeOutside(requester, target) THEN 300000 ELSE 0)
                + (IF GenderMismatch(requester, target) THEN 400000 ELSE 0)
            distance == IF DistanceExceeded(requester, target) THEN 200000 ELSE 0
        IN  op.ret = Max(0, Micro - others - distance)

-----------------------------------------------------------------------------
(* Reasons *)

\* No threshold of generate_match_reasons is met by the arguments of a call.
NoMatchReasonApplies(o) ==
    /\ o.breakdown.personality < 50
    /\ \A category \in {"communication", "values", "lifestyle"} :
          o.personality_details[category] < 750000
    /\ o.breakdown.interests < 50 \/ o.shared_interests = <<>>
    /\ o.breakdown.values < 65

\* No threshold of _generate_compatibility_reasons is met.
NoCompatibilityReasonApplies(o) ==
    /\ o.personality_score <= 500000
    /\ o.preferences_score <= 500000
    /\ o.shared_interests = {}

\* C21: generate_match_reasons and _generate_compatibility_reasons return
\* at least one reason for all arguments, and the single general reason
\* exactly when no reason with a threshold applies.
C21_AlwaysAReason ==
    /\ op.name = "generate_match_reasons" =>
          /\ op.ret # <<>>
          /\ NoMatchReasonApplies(op)
                <=> op.ret = <<"Profil interessant a decouvrir">>
          /\ ~NoMatchReasonApplies(op) =>
                "Profil interessant a decouvrir" \notin Range(op.ret)
    /\ op.name = "_generate_compatibility_reasons" =>
          /\ op.ret # <<>>
          /\ NoCompatibilityReasonApplies(op)
                <=> op.ret = <<"Basic compatibility criteria met">>
          /\ ~NoCompatibilityReasonApplies(op) =>
                "Basic compatibility criteria met" \notin Range(op.ret)

\* Scores below every threshold and shared interests that cannot count.
C21_Witness ==
    /\ op.name = "generate_match_reasons"
    /\ op.breakdown.personality = 49 /\ op.breakdown.interests = 49
    /\ op.shared_interests # <<>>
    /\ op.ret = <<"Profil interessant a decouvrir">>

-----------------------------------------------------------------------------
(* The endpoints and the cache over time *)

\* C24: a V1 or V2 request that is answered from the cache gets the result
\* a direct computation on the two profiles it carries would give.
C24_CachedEqualsDirect ==
    (IsCompatibilityRequest(op) /\ op.get = "hit" /\ op.status = 200) =>
        op.body = op.direct

\* The compatibilityScore of every computation a request performed: one
\* on the V1 and V2 endpoints unless the cache answered, one for each
\* profile on the batch and daily-selection endpoints.
ComputedScores(o) ==
    IF IsCompatibilityRequest(o)
    THEN IF o.get \in {"miss", "failed"}
         THEN <<o.direct.compatibilityScore>> ELSE <<>>
    ELSE IF o.name \in {"batch_compatibility", "generate_daily_selection"}
    THEN o.score
    ELSE <<>>

RECURSIVE SumOf(_)
SumOf(scores) ==
    IF scores = <<>> THEN 0 ELSE Head(scores) + SumOf(Tail(scores))

\* total_calculations grows by the number of computations of the request.
CountsEveryComputation ==
    stats'.total_calculations
        = stats.total_calculations + Len(ComputedScores(op'))

\* average_score stays the mean: its product with the count grows by the
\* scores of the computations counted.
AverageStaysMean ==
    LET old == stats.average_score
        new == stats'.average_score
    IN  new.num * stats'.total_calculations * old.den
            = new.den * (old.num * stats.total_calculations
                            + SumOf(ComputedScores(op')) * old.den)

\* C28: over any sequence of requests to the V1, V2, batch and
\* daily-selection endpoints, total_calculations is the number of
\* compatibility computations performed, average_score is the mean of the
\* compatibilityScore of the computations counted, and
\* total_v2_calculations <= total_calculations.
C28_StatsMatchComputations ==
    [][/\ CountsEveryComputation
       /\ CountsEveryComputation => AverageStaysMean
       /\ stats'.total_v2_calculations <= stats'.total_calculations]_vars

\* C28, the count alone, and the average alone on the requests whose
\* computations are all counted.
C28_CountAlone == [][CountsEveryComputation]_vars
C28_AverageAlone == [][CountsEveryComputation => AverageStaysMean]_vars
C28_V2AtMostTotal ==
    stats.total_v2_calculations <= stats.total_calculations

-----------------------------------------------------------------------------
(* Two workers *)

BothAnswered ==
    inflight # <<>> /\ \A i \in DOMAIN inflight : inflight[i].pc = "done"

RaceKey ==
    make_key(inflight[1].user1Profile.userId, inflight[1].user2Profile.userId,
             inflight[1].v)

\* C23: when two requests for the same unordered pair and version have run
\* side by side, in either order of the two users, both got the same result
\* and the entry left in the cache is the value either of them alone would
\* have written.
C23_RaceWritesOneValue ==
    BothAnswered =>
        /\ inflight[1].body = inflight[2].body
        /\ RaceKey \in DOMAIN store =>
              \A i \in DOMAIN inflight :
                  store[RaceKey] = json_dumps(DirectResult(inflight[i]))

\* C23 on the requests whose computation does not depend on the order of
\* the two users: V1, or V2 with the users named in the same order.
C23_OrderFreeRaces ==
    (BothAnswered /\ DirectResult(inflight[1]) = DirectResult(inflight[2])) =>
        /\ inflight[1].body = inflight[2].body
        /\ RaceKey \in DOMAIN store =>
              store[RaceKey] = json_dumps(DirectResult(inflight[1]))

====
